---- MODULE Spec2Model ----
(***************************************************************************)
(* okies-backend: the ledger and settlement engine.                        *)
(*                                                                         *)
(* The model is a PostgreSQL database (READ COMMITTED) and a pool of HTTP  *)
(* request slots.  Committed tables are the variables transactions,        *)
(* ledger_entries, withdrawals, ...; a request inside a database           *)
(* transaction keeps its uncommitted writes in its own slot (btx, bent,    *)
(* bwd, bupd) and tx.Commit applies them in one step, tx.Rollback drops    *)
(* them.  Row locks taken by SELECT ... FOR UPDATE are the variable wlock. *)
(* One action models one statement (or one run of statements that touches  *)
(* nothing another request can see in between) of a handler.               *)
(***************************************************************************)
EXTENDS Integers, Sequences, FiniteSets, TLC

\* ---------------------------------------------------------------- bounds
\* Request slots that run concurrently.
NSlots == 2
\* Rows of table transactions, committed or about to be.
MaxTx == 4
\* Rows of table payout_destinations.
MaxDest == 1
\* Transfer requests the provider receives.
MaxCalls == 2
\* Rows of table webhook_events.
MaxEvents == 1
MaxDeliveries == 2
\* Rows of table payouts in the settlement specifications.
MaxPayouts == 1
\* Rows of table users.
MaxUsers == 2
\* Rows of table refresh_tokens.
MaxTokens == 3

\* ------------------------------------------------------ program constants
\* guardrail: max single top-up (kobo)
MaxTopup == 500000000

\* ------------------------------------------------------------ identities
Slots == 1..NSlots
SystemUser == "sys"
\* Accounts that signed up (each has one wallet), besides the system user.
AllUsers == {"u1", "u2", "u3", "u4"}
NoKey == "-"

\* wallets.id of the wallet of a user.  Wallet ids are UUIDs; the system
\* wallet's id sorts between the users' ids here, so that both lock orders
\* (user first, system first) occur.
walletOf(u) ==
  CASE u = "u1" -> 1
    [] u = SystemUser -> 2
    [] u = "u2" -> 3
    [] u = "u3" -> 4
    [] u = "u4" -> 5
    [] OTHER -> 0
Wallets == {walletOf(u) : u \in AllUsers \cup {SystemUser}}
systemWalletID == walletOf(SystemUser)

VARIABLES
  transactions,    \* table transactions: Seq of rows, id = index
  ledger_entries,  \* table ledger_entries: set of rows
  withdrawals,     \* table withdrawals: Seq of rows, id = index
  wlock,           \* wallet row locks: wallet id -> holding slot, 0 if free
  req,             \* request slots: the handler's position and locals
  out,             \* the response the last step wrote (NoResp: none)
  payouts,             \* table payouts: Seq of rows, id = index
  payout_destinations, \* table payout_destinations: Seq of rows, id = index
  payout_transfers,    \* table payout_transfers: set of rows
  webhook_events,      \* table webhook_events: Seq of rows
  provider,            \* the transfer requests the provider received: Seq
  users,               \* table users: Seq of rows, id = index
  wallets,             \* table wallets: Seq of the rows Signup inserted
  refresh_tokens,      \* table refresh_tokens: Seq of rows, jti = index
  auth                 \* Signup and Refresh requests: position and locals

\* The tables and the provider of the payout side.
settlement ==
  <<payouts, payout_destinations, payout_transfers, webhook_events, provider>>

\* The tables of accounts and sessions, and the requests working on them.
accounts == <<users, wallets, refresh_tokens, auth>>

vars ==
  <<transactions, ledger_entries, withdrawals, wlock, req, out, settlement,
    accounts>>

\* ---------------------------------------------------------------- helpers
Range(s) == {s[i] : i \in DOMAIN s}

\* sort.Strings on a two-element slice of wallet ids
\* The wallet ids in the order the request names them.
sortPair_Unsorted(a, b) == <<a, b>>

sortPair(a, b) == IF a = b THEN <<a, b>> ELSE IF a < b THEN <<a, b>> ELSE <<b, a>>

RECURSIVE SumSigned(_)
\* SUM(CASE WHEN direction='credit' THEN amount ELSE -amount END)
SumSigned(S) ==
  IF S = {} THEN 0
  ELSE LET e == CHOOSE x \in S : TRUE
       IN (IF e.direction = "credit" THEN e.amount ELSE 0 - e.amount)
          + SumSigned(S \ {e})

\* The balance query of a handler, over the rows in `entries`.
balanceOver(entries, w) == SumSigned({e \in entries : e.wallet = w})

\* GetWallet: the balance a reader outside any transaction sees.
GetWallet(u) == balanceOver(ledger_entries, walletOf(u))

\* The balance read inside slot r's transaction: committed rows and its own.
balanceIn(r, w) == balanceOver(ledger_entries \cup req[r].bent, w)

InsufficientFunds_Neg(balance, amount) == balance < 0
\* if balance < body.Amount { insufficient_funds }
InsufficientFunds(balance, amount) == balance < amount

\* SELECT id FROM transactions WHERE idempotency_key=$1 (0: no row)
txWithKey(k) ==
  IF \E i \in DOMAIN transactions : transactions[i].key = k
  THEN CHOOSE i \in DOMAIN transactions : transactions[i].key = k
  ELSE 0

\* The unique index uq_transactions_idem makes an INSERT wait for an
\* uncommitted row with the same key in another transaction.
keyPending(r, k) ==
  \E s \in Slots \ {r} : \E i \in DOMAIN req[s].btx : req[s].btx[i].key = k

Idle ==
  [op |-> "none", pc |-> "idle", uid |-> "", to |-> "", amount |-> 0,
   key |-> NoKey, wid |-> 0, need |-> <<>>, btx |-> <<>>, bent |-> {},
   bwd |-> <<>>, bupd |-> FALSE, bpo |-> <<>>, ref |-> "", dest |-> 0,
   st |-> "", prow |-> 0, bpst |-> ""]

NoResp ==
  [op |-> "none", key |-> NoKey, wid |-> 0, code |-> 0, msg |-> "", id |-> 0]

\* writeJSON / httpError of slot r's handler: the request's kind, key and
\* withdrawal id, and the status code, message and id of the answer
Reply(r, code, msg, id) ==
  [op |-> req[r].op, key |-> req[r].key, wid |-> req[r].wid,
   code |-> code, msg |-> msg, id |-> id]

\* A request that is answered before it opens a transaction.
Reject0(r, q, code, msg) ==
  /\ req' = [req EXCEPT ![r] = Idle]
  /\ out' = [op |-> q.op, key |-> q.key, wid |-> q.wid,
             code |-> code, msg |-> msg, id |-> 0]

\* defer tx.Rollback: drop the slot's writes, release its row locks.
releaseLocks(r) == [w \in Wallets |-> IF wlock[w] = r THEN 0 ELSE wlock[w]]

Rollback(r, code, msg, id) ==
  /\ req' = [req EXCEPT ![r] = Idle]
  /\ out' = Reply(r, code, msg, id)
  /\ wlock' = releaseLocks(r)
  /\ UNCHANGED <<transactions, ledger_entries, withdrawals, settlement,
                 accounts>>

\* tx.Begin of a handler with its inputs read: the slot enters the lock step.
Begin(r, q, a, b) ==
  /\ req' = [req EXCEPT ![r] = [q EXCEPT !.pc = "lock", !.need = sortPair(a, b)]]
  /\ out' = NoResp

busy == {s \in Slots : req[s].pc # "idle"}

\* A new request takes the lowest free slot (the slots are interchangeable),
\* while the rows it may add stay within MaxTx.
canStart(r) ==
  /\ req[r].pc = "idle"
  /\ \A s \in Slots : s < r => req[s].pc # "idle"
  /\ Len(transactions) + Cardinality(busy) < MaxTx

\* The handlers that run their statements inside one database transaction.
TxOps == {"gift", "topup", "withdraw", "reject", "payout", "preject"}

inTx(r) == req[r].op \in TxOps /\ req[r].pc # "idle"

\* ------------------------------------------------- the database transaction
\* SELECT id FROM wallets WHERE id = ANY($1) FOR UPDATE, over the sorted ids:
\* the statement takes the row locks one at a time and waits, holding those
\* it has, for a row another transaction holds.
LockWallets(r) ==
  /\ req[r].pc = "lock"
  /\ LET w == Head(req[r].need)
         rest == Tail(req[r].need)
     IN /\ wlock[w] \in {0, r}
        /\ wlock' = [wlock EXCEPT ![w] = r]
        /\ req' = [req EXCEPT ![r].need = rest,
                              ![r].pc = IF rest = <<>> THEN "locked" ELSE "lock"]
  /\ UNCHANGED <<transactions, ledger_entries, withdrawals, settlement,
                 accounts>>
  /\ out' = NoResp

\* A statement of the transaction fails (storage error, request timeout):
\* the handler answers 500 and the deferred tx.Rollback runs.
Fail(r) ==
  /\ inTx(r)
  /\ Rollback(r, 500, "db_error", 0)

\* The rows a committing slot adds to ledger_entries, bound to the id the
\* transactions row got.
committedEntries(r, id) == {[e EXCEPT !.tx = id] : e \in req[r].bent}

\* tx.Commit: every buffered write becomes visible at once, locks are released.
CommitWrites(r) ==
  LET id == Len(transactions) + 1 IN
  /\ transactions' = transactions \o req[r].btx
  /\ ledger_entries' = ledger_entries \cup committedEntries(r, id)
  /\ withdrawals' =
       LET upd == IF req[r].bupd
                  THEN [withdrawals EXCEPT ![req[r].wid].status = "rejected"]
                  ELSE withdrawals
       IN upd \o [i \in DOMAIN req[r].bwd |-> [req[r].bwd[i] EXCEPT !.tx_id = id]]
  /\ payouts' =
       (IF req[r].bpst # ""
        THEN [payouts EXCEPT ![req[r].wid].status = req[r].bpst]
        ELSE payouts) \o req[r].bpo
  /\ wlock' = releaseLocks(r)
  /\ UNCHANGED <<payout_destinations, payout_transfers, webhook_events, provider,
                 accounts>>

newTx(key, kind, amount, reversal, forWd) ==
  [key |-> key, kind |-> kind, amount |-> amount, reversal |-> reversal,
   forWd |-> forWd]

pairEntries_OneSided(debitW, amount, creditW) ==
  {[tx |-> 0, wallet |-> debitW, direction |-> "debit", amount |-> amount]}
\* INSERT INTO ledger_entries ... VALUES ($1,$2,'debit',$3), ($1,$4,'credit',$3)
pairEntries(debitW, amount, creditW) ==
  {[tx |-> 0, wallet |-> debitW, direction |-> "debit", amount |-> amount],
   [tx |-> 0, wallet |-> creditW, direction |-> "credit", amount |-> amount]}

\* The INSERT without the unique index on idempotency_key.
InsertTx_NoIndex(r, row) ==
  /\ req' = [req EXCEPT ![r].btx = <<row>>, ![r].pc = "insert_ledger"]
  /\ UNCHANGED <<transactions, ledger_entries, withdrawals, wlock, settlement,
                 accounts>>
  /\ out' = NoResp
\* INSERT INTO transactions (idempotency_key, ...) under uq_transactions_idem:
\* waits for an uncommitted row with the same key, fails on a committed one.
InsertTx(r, row) ==
  /\ ~keyPending(r, row.key) \/ row.key = NoKey
  /\ IF row.key # NoKey /\ txWithKey(row.key) # 0
     THEN Rollback(r, 500, "insert_tx_error", 0)
     ELSE /\ req' = [req EXCEPT ![r].btx = <<row>>, ![r].pc = "insert_ledger"]
          /\ UNCHANGED <<transactions, ledger_entries, withdrawals, wlock, settlement,
                         accounts>>
          /\ out' = NoResp

\* ------------------------------------------------------------- CreateGift
\* The handler without the self-transfer test.
CreateGift_Begin_NoSelfCheck(r, uid, to, amount, key) ==
  /\ req[r].pc = "idle"
  /\ canStart(r)
  /\ LET q == [Idle EXCEPT !.op = "gift", !.uid = uid, !.to = to,
                           !.amount = amount, !.key = key]
     IN IF to = "" \/ amount <= 0
        THEN Reject0(r, q, 400, "invalid_request")
        ELSE Begin(r, q, walletOf(uid), walletOf(to))
  /\ UNCHANGED <<transactions, ledger_entries, withdrawals, wlock, settlement,
                 accounts>>

\* Inputs are validated before the transaction: recipient and amount, then
\* the self-transfer test.
CreateGift_Begin(r, uid, to, amount, key) ==
  /\ req[r].pc = "idle"
  /\ canStart(r)
  /\ LET q == [Idle EXCEPT !.op = "gift", !.uid = uid, !.to = to,
                           !.amount = amount, !.key = key]
     IN IF to = "" \/ amount <= 0
        THEN Reject0(r, q, 400, "invalid_request")
        ELSE IF to = uid
        THEN Reject0(r, q, 400, "cannot_gift_self")
        ELSE Begin(r, q, walletOf(uid), walletOf(to))
  /\ UNCHANGED <<transactions, ledger_entries, withdrawals, wlock, settlement,
                 accounts>>

\* The handler without the idempotency check.
CreateGift_Check_NoLookup(r) ==
  /\ req[r].op = "gift" /\ req[r].pc = "locked"
  /\ IF InsufficientFunds(balanceIn(r, walletOf(req[r].uid)), req[r].amount)
     THEN Rollback(r, 400, "insufficient_funds", 0)
     ELSE /\ req' = [req EXCEPT ![r].pc = "insert_tx"]
          /\ UNCHANGED <<transactions, ledger_entries, withdrawals, wlock, settlement,
                         accounts>>
          /\ out' = NoResp
\* the idempotency check, then the sender's balance check
CreateGift_Check(r) ==
  /\ req[r].op = "gift" /\ req[r].pc = "locked"
  /\ LET existing == IF req[r].key = NoKey THEN 0 ELSE txWithKey(req[r].key)
         balance == balanceIn(r, walletOf(req[r].uid))
     IN IF existing # 0
        THEN Rollback(r, 200, "succeeded", existing)
        ELSE IF InsufficientFunds(balance, req[r].amount)
        THEN Rollback(r, 400, "insufficient_funds", 0)
        ELSE /\ req' = [req EXCEPT ![r].pc = "insert_tx"]
             /\ UNCHANGED <<transactions, ledger_entries, withdrawals, wlock, settlement,
                            accounts>>
          /\ out' = NoResp

CreateGift_InsertTx(r) ==
  /\ req[r].op = "gift" /\ req[r].pc = "insert_tx"
  /\ InsertTx(r, newTx(req[r].key, "gift", req[r].amount, FALSE, 0))

\* Ledger: debit sender, credit recipient
CreateGift_InsertLedger(r) ==
  /\ req[r].op = "gift" /\ req[r].pc = "insert_ledger"
  /\ req' = [req EXCEPT
       ![r].bent = pairEntries(walletOf(req[r].uid), req[r].amount, walletOf(req[r].to)),
       ![r].pc = "commit"]
  /\ UNCHANGED <<transactions, ledger_entries, withdrawals, wlock, settlement,
                 accounts>>
  /\ out' = NoResp

\* The two ledger rows written as two commits: the debit first, then the credit.
CreateGift_Commit_DebitFirst(r) ==
  /\ req[r].op = "gift" /\ req[r].pc = "commit"
  /\ LET id == Len(transactions) + 1 IN
     IF req[r].btx # <<>>
     THEN /\ transactions' = transactions \o req[r].btx
          /\ ledger_entries' = ledger_entries \cup
               {[e EXCEPT !.tx = id] : e \in {x \in req[r].bent : x.direction = "debit"}}
          /\ req' = [req EXCEPT ![r].btx = <<>>,
               ![r].bent = {[e EXCEPT !.tx = id] :
                              e \in {x \in req[r].bent : x.direction = "credit"}}]
          /\ out' = NoResp
          /\ UNCHANGED <<withdrawals, wlock, settlement, accounts>>
     ELSE /\ ledger_entries' = ledger_entries \cup req[r].bent
          /\ wlock' = releaseLocks(r)
          /\ out' = Reply(r, 201, "succeeded", Len(transactions))
          /\ req' = [req EXCEPT ![r] = Idle]
          /\ UNCHANGED <<transactions, withdrawals, settlement, accounts>>

CreateGift_Commit(r) ==
  /\ req[r].op = "gift" /\ req[r].pc = "commit"
  /\ CommitWrites(r)
  /\ out' = Reply(r, 201, "succeeded", Len(transactions) + 1)
  /\ req' = [req EXCEPT ![r] = Idle]

\* ------------------------------------------------------------- AdminTopup
\* guarded: the version with the same-wallet and maximum-amount guards.
AdminTopup_Begin(r, to, amount, key, guarded) ==
  /\ req[r].pc = "idle"
  /\ canStart(r)
  /\ LET q == [Idle EXCEPT !.op = "topup", !.uid = "admin", !.to = to,
                           !.amount = amount, !.key = key]
     IN IF to = "" \/ amount <= 0
        THEN Reject0(r, q, 400, "invalid_request")
        ELSE IF guarded /\ amount > MaxTopup
        THEN Reject0(r, q, 400, "amount_too_large")
        ELSE IF guarded /\ walletOf(to) = systemWalletID
        THEN Reject0(r, q, 400, "invalid_target_wallet")
        ELSE Begin(r, q, walletOf(to), systemWalletID)
  /\ UNCHANGED <<transactions, ledger_entries, withdrawals, wlock, settlement,
                 accounts>>

AdminTopup_Check(r) ==
  /\ req[r].op = "topup" /\ req[r].pc = "locked"
  /\ LET existing == IF req[r].key = NoKey THEN 0 ELSE txWithKey(req[r].key)
     IN IF existing # 0
        THEN Rollback(r, 200, "succeeded", existing)
        ELSE /\ req' = [req EXCEPT ![r].pc = "insert_tx"]
             /\ UNCHANGED <<transactions, ledger_entries, withdrawals, wlock, settlement,
                            accounts>>
          /\ out' = NoResp

AdminTopup_InsertTx(r) ==
  /\ req[r].op = "topup" /\ req[r].pc = "insert_tx"
  /\ InsertTx(r, newTx(req[r].key, "topup", req[r].amount, FALSE, 0))

\* The top-up that credits the user and debits nobody.
AdminTopup_InsertLedger_Mint(r) ==
  /\ req[r].op = "topup" /\ req[r].pc = "insert_ledger"
  /\ req' = [req EXCEPT
       ![r].bent = {[tx |-> 0, wallet |-> walletOf(req[r].to),
                     direction |-> "credit", amount |-> req[r].amount]},
       ![r].pc = "commit"]
  /\ UNCHANGED <<transactions, ledger_entries, withdrawals, wlock, settlement,
                 accounts>>
  /\ out' = NoResp

\* ledger: debit system, credit user
AdminTopup_InsertLedger(r) ==
  /\ req[r].op = "topup" /\ req[r].pc = "insert_ledger"
  /\ req' = [req EXCEPT
       ![r].bent = pairEntries(systemWalletID, req[r].amount, walletOf(req[r].to)),
       ![r].pc = "commit"]
  /\ UNCHANGED <<transactions, ledger_entries, withdrawals, wlock, settlement,
                 accounts>>
  /\ out' = NoResp

AdminTopup_Commit(r) ==
  /\ req[r].op = "topup" /\ req[r].pc = "commit"
  /\ CommitWrites(r)
  /\ out' = Reply(r, 201, "succeeded", Len(transactions) + 1)
  /\ req' = [req EXCEPT ![r] = Idle]

\* --------------------------------- CreateWithdrawal (table withdrawals)
\* The handler does not read the Idempotency-Key header; `key` is the header
\* the client sent.
CreateWithdrawal_Begin(r, uid, amount, key) ==
  /\ req[r].pc = "idle"
  /\ canStart(r)
  /\ LET q == [Idle EXCEPT !.op = "withdraw", !.uid = uid, !.amount = amount,
                           !.key = key]
     IN IF amount <= 0
        THEN Reject0(r, q, 400, "invalid_request")
        ELSE Begin(r, q, walletOf(uid), systemWalletID)
  /\ UNCHANGED <<transactions, ledger_entries, withdrawals, wlock, settlement,
                 accounts>>

\* check balance (sum(credits - debits))
CreateWithdrawal_Check(r) ==
  /\ req[r].op = "withdraw" /\ req[r].pc = "locked"
  /\ IF InsufficientFunds(balanceIn(r, walletOf(req[r].uid)), req[r].amount)
     THEN Rollback(r, 400, "insufficient_funds", 0)
     ELSE /\ req' = [req EXCEPT ![r].pc = "insert_hold"]
          /\ UNCHANGED <<transactions, ledger_entries, withdrawals, wlock, settlement,
                         accounts>>
          /\ out' = NoResp

\* The hold inserted on the pool, outside the transaction: it is committed
\* by itself, whatever becomes of the withdrawal row.
CreateWithdrawal_InsertHold_Autocommit(r) ==
  /\ req[r].op = "withdraw" /\ req[r].pc = "insert_hold"
  /\ transactions' =
       Append(transactions, newTx(NoKey, "withdrawal", req[r].amount, FALSE, 0))
  /\ ledger_entries' = ledger_entries \cup
       {[e EXCEPT !.tx = Len(transactions) + 1] :
          e \in pairEntries(walletOf(req[r].uid), req[r].amount, systemWalletID)}
  /\ req' = [req EXCEPT ![r].pc = "insert_withdrawal"]
  /\ UNCHANGED <<withdrawals, wlock, settlement, accounts>>
  /\ out' = NoResp

\* move funds into "system" as a hold: one statement inserts the
\* transactions row and both ledger rows
CreateWithdrawal_InsertHold(r) ==
  /\ req[r].op = "withdraw" /\ req[r].pc = "insert_hold"
  /\ req' = [req EXCEPT
       ![r].btx = <<newTx(NoKey, "withdrawal", req[r].amount, FALSE, 0)>>,
       ![r].bent = pairEntries(walletOf(req[r].uid), req[r].amount, systemWalletID),
       ![r].pc = "insert_withdrawal"]
  /\ UNCHANGED <<transactions, ledger_entries, withdrawals, wlock, settlement,
                 accounts>>
  /\ out' = NoResp

\* create withdrawal request linked to the hold transaction
\* (hdr is not a column: it records the Idempotency-Key header the request
\* carried, which the handler never reads)
CreateWithdrawal_InsertRow(r) ==
  /\ req[r].op = "withdraw" /\ req[r].pc = "insert_withdrawal"
  /\ req' = [req EXCEPT
       ![r].bwd = <<[user |-> req[r].uid, amount |-> req[r].amount,
                     status |-> "pending", tx_id |-> 0, hdr |-> req[r].key]>>,
       ![r].pc = "commit"]
  /\ UNCHANGED <<transactions, ledger_entries, withdrawals, wlock, settlement,
                 accounts>>
  /\ out' = NoResp

CreateWithdrawal_Commit(r) ==
  /\ req[r].op = "withdraw" /\ req[r].pc = "commit"
  /\ CommitWrites(r)
  /\ out' = Reply(r, 201, "pending", Len(withdrawals) + 1)
  /\ req' = [req EXCEPT ![r] = Idle]

\* ----------------------------- AdminRejectWithdrawal (table withdrawals)
\* Another transaction holds an uncommitted UPDATE of withdrawals row id.
wdRowLocked(r, id) ==
  \E s \in Slots \ {r} : req[s].bupd /\ req[s].wid = id

loadPendingAny(id) == id \in DOMAIN withdrawals
\* SELECT user_id, amount, tx_id FROM withdrawals WHERE id=$1 AND status='pending'
loadPending(id) == id \in DOMAIN withdrawals /\ withdrawals[id].status = "pending"

\* Load withdrawal (ensure pending), outside the transaction; then tx.Begin
AdminRejectWithdrawal_Load(r, id) ==
  /\ req[r].pc = "idle"
  /\ canStart(r)
  /\ LET q == [Idle EXCEPT !.op = "reject", !.uid = "admin", !.wid = id]
     IN IF ~loadPending(id)
        THEN Reject0(r, q, 404, "not_found_or_already_processed")
        ELSE Begin(r, [q EXCEPT !.to = withdrawals[id].user,
                                !.amount = withdrawals[id].amount],
                   walletOf(withdrawals[id].user), systemWalletID)
  /\ UNCHANGED <<transactions, ledger_entries, withdrawals, wlock, settlement,
                 accounts>>

\* reverse the hold: system debit, user credit
AdminRejectWithdrawal_InsertReversal(r) ==
  /\ req[r].op = "reject" /\ req[r].pc = "locked"
  /\ req' = [req EXCEPT
       ![r].btx = <<newTx(NoKey, "withdrawal", req[r].amount, TRUE, req[r].wid)>>,
       ![r].bent = pairEntries(systemWalletID, req[r].amount, walletOf(req[r].to)),
       ![r].pc = "update"]
  /\ UNCHANGED <<transactions, ledger_entries, withdrawals, wlock, settlement,
                 accounts>>
  /\ out' = NoResp

\* UPDATE withdrawals SET status='rejected' WHERE id=$1 AND status='pending':
\* it waits for an uncommitted update of the row and then writes the row only
\* if it is still pending; the number of rows it changed is not looked at.
AdminRejectWithdrawal_Update(r) ==
  /\ req[r].op = "reject" /\ req[r].pc = "update"
  /\ ~wdRowLocked(r, req[r].wid)
  /\ req' = [req EXCEPT
       ![r].bupd = (withdrawals[req[r].wid].status = "pending"),
       ![r].pc = "commit"]
  /\ UNCHANGED <<transactions, ledger_entries, withdrawals, wlock, settlement,
                 accounts>>
  /\ out' = NoResp

AdminRejectWithdrawal_Commit(r) ==
  /\ req[r].op = "reject" /\ req[r].pc = "commit"
  /\ CommitWrites(r)
  /\ out' = Reply(r, 200, "rejected", req[r].wid)
  /\ req' = [req EXCEPT ![r] = Idle]

\* ------------------------------------------------- payout destinations
\* CreatePayoutDestination: the beneficiary is registered with the provider
\* and the row is inserted by one statement outside any transaction; the
\* handler takes no row lock.
CreatePayoutDestination(r, uid) ==
  /\ req[r].pc = "idle"
  /\ \A s \in Slots : s < r => req[s].pc # "idle"
  /\ Len(payout_destinations) < MaxDest
  /\ payout_destinations' =
       Append(payout_destinations, [user |-> uid, status |-> "active"])
  /\ out' = [NoResp EXCEPT !.op = "create_destination", !.code = 201,
                           !.id = Len(payout_destinations) + 1]
  /\ UNCHANGED <<transactions, ledger_entries, withdrawals, wlock, req,
                 payouts, payout_transfers, webhook_events, provider,
                 accounts>>

\* A row of payout_destinations that no DELETE has removed.  Ids are never
\* reused, so a removed row keeps its place in the sequence, marked "deleted".
destExists(id) ==
  id \in DOMAIN payout_destinations /\ payout_destinations[id].status # "deleted"

\* payouts.destination_id REFERENCES payout_destinations(id): a transaction
\* that has inserted a payout row holds a key-share lock on the destination
\* row until it ends, and a DELETE of that row waits for it.
destKeyShared(id) ==
  \E s \in Slots : req[s].bpo # <<>> /\ req[s].dest = id

\* DELETE with no foreign key behind it: a referenced destination goes too.
DeletePayoutDestination_NoRestrict(r, uid, id) ==
  /\ req[r].pc = "idle"
  /\ \A s \in Slots : s < r => req[s].pc # "idle"
  /\ IF ~destExists(id) \/ payout_destinations[id].user # uid
     THEN /\ out' = [NoResp EXCEPT !.op = "delete_destination", !.code = 404,
                                   !.msg = "not_found", !.id = id]
          /\ UNCHANGED payout_destinations
     ELSE /\ payout_destinations' =
               [payout_destinations EXCEPT ![id].status = "deleted"]
          /\ out' = [NoResp EXCEPT !.op = "delete_destination", !.code = 200,
                                   !.msg = "deleted", !.id = id]
  /\ UNCHANGED <<transactions, ledger_entries, withdrawals, wlock, req,
                 payouts, payout_transfers, webhook_events, provider,
                 accounts>>

\* DeletePayoutDestination: one DELETE ... WHERE id=$1 AND user_id=$2 outside
\* any transaction.  No row: 404.  ON DELETE RESTRICT makes the statement
\* fail (500 db_error) while a payout references the row.
DeletePayoutDestination(r, uid, id) ==
  /\ req[r].pc = "idle"
  /\ \A s \in Slots : s < r => req[s].pc # "idle"
  /\ ~destKeyShared(id)
  /\ IF ~destExists(id) \/ payout_destinations[id].user # uid
     THEN /\ out' = [NoResp EXCEPT !.op = "delete_destination", !.code = 404,
                                   !.msg = "not_found", !.id = id]
          /\ UNCHANGED payout_destinations
     ELSE IF \E i \in DOMAIN payouts : payouts[i].destination_id = id
     THEN /\ out' = [NoResp EXCEPT !.op = "delete_destination", !.code = 500,
                                   !.msg = "db_error", !.id = id]
          /\ UNCHANGED payout_destinations
     ELSE /\ payout_destinations' =
               [payout_destinations EXCEPT ![id].status = "deleted"]
          /\ out' = [NoResp EXCEPT !.op = "delete_destination", !.code = 200,
                                   !.msg = "deleted", !.id = id]
  /\ UNCHANGED <<transactions, ledger_entries, withdrawals, wlock, req,
                 payouts, payout_transfers, webhook_events, provider,
                 accounts>>

\* SELECT ... FROM payout_destinations WHERE user_id=$1 AND status='active'
latestActivePayoutDestination(userID) ==
  \E i \in DOMAIN payout_destinations :
    payout_destinations[i].user = userID /\ payout_destinations[i].status = "active"

\* ------------------------------------ CreateWithdrawal (table payouts)
\* reference := "wd-" + uuid.NewString(): a reference no other request has.
newReference(r) == "wd-" \o ToString(Len(payouts) + 1) \o "-" \o ToString(r)

\* SELECT id FROM payouts WHERE reference=$1 (0: no row)
payoutWithRef(ref) ==
  IF \E i \in DOMAIN payouts : payouts[i].reference = ref
  THEN CHOOSE i \in DOMAIN payouts : payouts[i].reference = ref
  ELSE 0

\* Ensure destination belongs to the user; idem is the Idempotency-Key
\* header, or the new reference when the header is empty; then tx.Begin.
Payouts_CreateWithdrawal_Begin(r, uid, dest, amount, key) ==
  /\ req[r].pc = "idle"
  /\ canStart(r)
  /\ LET q == [Idle EXCEPT !.op = "payout", !.uid = uid, !.amount = amount,
                           !.key = key, !.dest = dest,
                           !.ref = IF key = NoKey THEN newReference(r) ELSE key]
     IN IF amount <= 0 \/ dest = 0
        THEN Reject0(r, q, 400, "invalid_request")
        ELSE IF ~destExists(dest) \/ payout_destinations[dest].user # uid
        THEN Reject0(r, q, 400, "invalid_destination")
        ELSE Begin(r, q, systemWalletID, walletOf(uid))
  /\ UNCHANGED <<transactions, ledger_entries, withdrawals, wlock, settlement,
                 accounts>>

\* idempotency check; no balance is read
Payouts_CreateWithdrawal_Check(r) ==
  /\ req[r].op = "payout" /\ req[r].pc = "locked"
  /\ IF txWithKey(req[r].ref) # 0
     THEN Rollback(r, 200, "pending", payoutWithRef(req[r].ref))
     ELSE /\ req' = [req EXCEPT ![r].pc = "insert_tx"]
          /\ UNCHANGED <<transactions, ledger_entries, withdrawals, wlock, settlement,
                         accounts>>
          /\ out' = NoResp

\* reserve: debit user, credit system
Payouts_CreateWithdrawal_InsertTx(r) ==
  /\ req[r].op = "payout" /\ req[r].pc = "insert_tx"
  /\ InsertTx(r, newTx(req[r].ref, "withdrawal_reserve", req[r].amount, FALSE, 0))

Payouts_CreateWithdrawal_InsertLedger(r) ==
  /\ req[r].op = "payout" /\ req[r].pc = "insert_ledger"
  /\ req' = [req EXCEPT
       ![r].bent = pairEntries(walletOf(req[r].uid), req[r].amount, systemWalletID),
       ![r].pc = "insert_payout"]
  /\ UNCHANGED <<transactions, ledger_entries, withdrawals, wlock, settlement,
                 accounts>>
  /\ out' = NoResp

\* create payout; payouts.reference is UNIQUE and destination_id must name
\* a row of payout_destinations
Payouts_CreateWithdrawal_InsertPayout(r) ==
  /\ req[r].op = "payout" /\ req[r].pc = "insert_payout"
  /\ IF payoutWithRef(req[r].ref) # 0 \/ ~destExists(req[r].dest)
     THEN Rollback(r, 500, "insert_payout_error", 0)
     ELSE /\ req' = [req EXCEPT
               ![r].bpo = <<[user |-> req[r].uid, destination_id |-> req[r].dest,
                             amount |-> req[r].amount, status |-> "pending",
                             reference |-> req[r].ref]>>,
               ![r].pc = "commit"]
          /\ UNCHANGED <<transactions, ledger_entries, withdrawals, wlock, settlement,
                         accounts>>
          /\ out' = NoResp

Payouts_CreateWithdrawal_Commit(r) ==
  /\ req[r].op = "payout" /\ req[r].pc = "commit"
  /\ CommitWrites(r)
  /\ out' = Reply(r, 201, "pending", Len(payouts) + 1)
  /\ req' = [req EXCEPT ![r] = Idle]

\* --------------------------- AdminApproveWithdrawal (table withdrawals)
\* A reference made anew for every request sent to the provider.
wdRef_PerCall(id) == "wd-" \o ToString(id) \o "-" \o ToString(Len(provider))

\* ref := "wd-" + id, the reference of every transfer request of a withdrawal
wdRef(id) == "wd-" \o ToString(id)

\* The requests the provider may still receive stay within MaxCalls.
canCall(r) ==
  /\ req[r].pc = "idle"
  /\ \A s \in Slots : s < r => req[s].pc # "idle"
  /\ Len(provider)
       + Cardinality({s \in Slots : req[s].op \in {"approve", "papprove"}}) < MaxCalls

\* A handler that runs its statements one by one, outside a transaction,
\* answers and ends.
Answer(r, code, msg) ==
  /\ req' = [req EXCEPT ![r] = Idle]
  /\ out' = Reply(r, code, msg, 0)

\* Load withdrawal (allow retry if already approved but not yet transferred)
AdminApproveWithdrawal_Load(r, id) ==
  /\ canCall(r)
  /\ LET q == [Idle EXCEPT !.op = "approve", !.uid = "admin", !.wid = id]
     IN IF id \notin DOMAIN withdrawals
        THEN Reject0(r, q, 404, "withdrawal_not_found")
        ELSE IF withdrawals[id].status \notin {"pending", "approved"}
        THEN Reject0(r, q, 409, "already_processed")
        ELSE /\ req' = [req EXCEPT ![r] =
                  [q EXCEPT !.pc = "dest", !.to = withdrawals[id].user,
                            !.amount = withdrawals[id].amount,
                            !.st = withdrawals[id].status]]
             /\ out' = NoResp
  /\ UNCHANGED <<transactions, ledger_entries, withdrawals, wlock, settlement,
                 accounts>>

\* ensure an active payout destination exists
AdminApproveWithdrawal_Dest(r) ==
  /\ req[r].op = "approve" /\ req[r].pc = "dest"
  /\ IF ~latestActivePayoutDestination(req[r].to)
     THEN Answer(r, 400, "payout_destination_missing")
     ELSE /\ req' = [req EXCEPT ![r].pc = "existing"]
          /\ out' = NoResp
  /\ UNCHANGED <<transactions, ledger_entries, withdrawals, wlock, settlement,
                 accounts>>

\* The handler without the lookup of an existing payout transfer.
AdminApproveWithdrawal_Existing_Blind(r) ==
  /\ req[r].op = "approve" /\ req[r].pc = "existing"
  /\ req' = [req EXCEPT ![r].pc = "mark"]
  /\ out' = NoResp
  /\ UNCHANGED <<transactions, ledger_entries, withdrawals, wlock, settlement,
                 accounts>>

\* check if a payout transfer already exists for this withdrawal
AdminApproveWithdrawal_Existing(r) ==
  /\ req[r].op = "approve" /\ req[r].pc = "existing"
  /\ IF \E t \in payout_transfers : t.withdrawal_id = req[r].wid
     THEN Answer(r, 200, "already_initiated")
     ELSE /\ req' = [req EXCEPT ![r].pc = "mark"]
          /\ out' = NoResp
  /\ UNCHANGED <<transactions, ledger_entries, withdrawals, wlock, settlement,
                 accounts>>

\* The approval that requests the transfer and leaves the status alone.
AdminApproveWithdrawal_Mark_NoUpdate(r) ==
  /\ req[r].op = "approve" /\ req[r].pc = "mark"
  /\ IF req[r].amount % 100 # 0
     THEN Answer(r, 400, "amount_not_whole_naira")
     ELSE /\ req' = [req EXCEPT ![r].pc = "call"]
          /\ out' = NoResp
  /\ UNCHANGED <<transactions, ledger_entries, withdrawals, wlock, settlement,
                 accounts>>

\* mark as approved (if still pending): the UPDATE runs only if the status
\* loaded was pending and writes the row only if it is pending now; it waits
\* for an uncommitted update of the row.  Then the whole-Naira check.
AdminApproveWithdrawal_Mark(r) ==
  /\ req[r].op = "approve" /\ req[r].pc = "mark"
  /\ req[r].st = "pending" => ~wdRowLocked(r, req[r].wid)
  /\ withdrawals' =
       IF req[r].st = "pending" /\ withdrawals[req[r].wid].status = "pending"
       THEN [withdrawals EXCEPT ![req[r].wid].status = "approved"]
       ELSE withdrawals
  /\ IF req[r].amount % 100 # 0
     THEN Answer(r, 400, "amount_not_whole_naira")
     ELSE /\ req' = [req EXCEPT ![r].pc = "call"]
          /\ out' = NoResp
  /\ UNCHANGED <<transactions, ledger_entries, wlock, settlement, accounts>>

\* The call that puts the withdrawal back to pending when the provider fails.
AdminApproveWithdrawal_Call_Unapprove(r) ==
  /\ req[r].op = "approve" /\ req[r].pc = "call"
  /\ LET sent == Append(provider, [reference |-> wdRef(req[r].wid),
                                   amount |-> req[r].amount \div 100,
                                   for |-> <<"withdrawals", req[r].wid>>])
     IN \/ /\ provider' = sent
           /\ req' = [req EXCEPT ![r].pc = "persist"]
           /\ out' = NoResp
           /\ UNCHANGED withdrawals
        \/ /\ provider' \in {provider, sent}
           /\ Answer(r, 502, "flutterwave_error")
           /\ withdrawals' = [withdrawals EXCEPT ![req[r].wid].status = "pending"]
  /\ UNCHANGED <<transactions, ledger_entries, wlock, payouts,
                 payout_destinations, payout_transfers, webhook_events,
                 accounts>>

\* call Flutterwave: POST /v3/transfers with the amount in Naira (`for` is
\* not sent: it records the withdrawal the request was made for).  The call
\* returns the provider's answer, or an error, before or after the provider
\* has taken the request.
AdminApproveWithdrawal_Call(r) ==
  /\ req[r].op = "approve" /\ req[r].pc = "call"
  /\ LET sent == Append(provider, [reference |-> wdRef(req[r].wid),
                                   amount |-> req[r].amount \div 100,
                                   for |-> <<"withdrawals", req[r].wid>>])
     IN \/ /\ provider' = sent
           /\ req' = [req EXCEPT ![r].pc = "persist"]
           /\ out' = NoResp
        \/ /\ provider' \in {provider, sent}
           /\ Answer(r, 502, "flutterwave_error")
  /\ UNCHANGED <<transactions, ledger_entries, withdrawals, wlock, payouts,
                 payout_destinations, payout_transfers, webhook_events,
                 accounts>>

\* persist payout_transfers: INSERT ... ON CONFLICT (reference) DO NOTHING
AdminApproveWithdrawal_Persist(r) ==
  /\ req[r].op = "approve" /\ req[r].pc = "persist"
  /\ payout_transfers' =
       IF \E t \in payout_transfers : t.reference = wdRef(req[r].wid)
       THEN payout_transfers
       ELSE payout_transfers \cup
              {[withdrawal_id |-> req[r].wid, reference |-> wdRef(req[r].wid),
                amount |-> req[r].amount, status |-> "pending"]}
  /\ Answer(r, 200, "transfer_initiated")
  /\ UNCHANGED <<transactions, ledger_entries, withdrawals, wlock, payouts,
                 payout_destinations, webhook_events, provider,
                 accounts>>

\* The UPDATE or the INSERT of the handler fails: 500, nothing is undone.
AdminApproveWithdrawal_DbError(r) ==
  /\ req[r].op = "approve" /\ req[r].pc \in {"mark", "persist"}
  /\ req[r].pc = "mark" => req[r].st = "pending"
  /\ Answer(r, 500, "db_error")
  /\ UNCHANGED <<transactions, ledger_entries, withdrawals, wlock, settlement,
                 accounts>>

\* ------------------------------ FlutterwaveWebhook (webhook_handlers.go)
\* os.Getenv("FLW_WEBHOOK_HASH")
FLW_WEBHOOK_HASH == "hash"

\* strings.ToLower of the provider's status
toLower(s) ==
  CASE s = "SUCCESSFUL" -> "successful"
    [] s = "FAILED" -> "failed"
    [] s = "PENDING" -> "pending"
    [] OTHER -> s

\* withdrawal_id of the payout_transfers row with the reference (0: none)
withdrawalOfRef(ref) ==
  IF \E t \in payout_transfers : t.reference = ref
  THEN (CHOOSE t \in payout_transfers : t.reference = ref).withdrawal_id
  ELSE 0

\* The handler that compares the header with the secret even when no secret
\* is configured.
FlutterwaveWebhook_Receive_NoSecretCheck(r, secret, verif, ref, status) ==
  /\ req[r].pc = "idle"
  /\ \A s \in Slots : s < r => req[s].pc # "idle"
  /\ LET q == [Idle EXCEPT !.op = "webhook", !.ref = ref, !.st = toLower(status)]
     IN IF verif # secret
        THEN /\ Reject0(r, q, 403, "invalid signature")
             /\ UNCHANGED webhook_events
        ELSE /\ webhook_events' =
                  Append(webhook_events, [reference |-> ref, status |-> status])
             /\ IF ref = ""
                THEN /\ req' = [req EXCEPT ![r] = Idle]
                     /\ out' = [NoResp EXCEPT !.op = "webhook", !.code = 200,
                                              !.msg = "ok"]
                ELSE /\ req' = [req EXCEPT ![r] = [q EXCEPT !.pc = "transfer"]]
                     /\ out' = NoResp
  /\ UNCHANGED <<transactions, ledger_entries, withdrawals, wlock, payouts,
                 payout_destinations, payout_transfers, provider,
                 accounts>>

\* The signature check, and "Store raw webhook"
FlutterwaveWebhook_Receive(r, secret, verif, ref, status) ==
  /\ req[r].pc = "idle"
  /\ \A s \in Slots : s < r => req[s].pc # "idle"
  /\ LET q == [Idle EXCEPT !.op = "webhook", !.ref = ref, !.st = toLower(status)]
     IN IF secret = "" \/ verif # secret
        THEN /\ Reject0(r, q, 403, "invalid signature")
             /\ UNCHANGED webhook_events
        ELSE /\ webhook_events' =
                  Append(webhook_events, [reference |-> ref, status |-> status])
             /\ IF ref = ""
                THEN /\ req' = [req EXCEPT ![r] = Idle]
                     /\ out' = [NoResp EXCEPT !.op = "webhook", !.code = 200,
                                              !.msg = "ok"]
                ELSE /\ req' = [req EXCEPT ![r] = [q EXCEPT !.pc = "transfer"]]
                     /\ out' = NoResp
  /\ UNCHANGED <<transactions, ledger_entries, withdrawals, wlock, payouts,
                 payout_destinations, payout_transfers, provider,
                 accounts>>

\* Update payout transfer
FlutterwaveWebhook_UpdateTransfer(r) ==
  /\ req[r].op = "webhook" /\ req[r].pc = "transfer"
  /\ payout_transfers' =
       {IF t.reference = req[r].ref THEN [t EXCEPT !.status = req[r].st] ELSE t :
          t \in payout_transfers}
  /\ req' = [req EXCEPT ![r].pc = "withdrawal"]
  /\ out' = NoResp
  /\ UNCHANGED <<transactions, ledger_entries, withdrawals, wlock, payouts,
                 payout_destinations, webhook_events, provider,
                 accounts>>

\* The handler that answers a delivery for a settled withdrawal with an error.
FlutterwaveWebhook_UpdateWithdrawal_Strict(r) ==
  /\ req[r].op = "webhook" /\ req[r].pc = "withdrawal"
  /\ LET id == withdrawalOfRef(req[r].ref)
         to == CASE req[r].st \in {"successful", "success", "completed"} -> "paid"
                 [] req[r].st \in {"failed", "error"} -> "failed"
                 [] OTHER -> ""
     IN /\ (id # 0 /\ to # "") => ~wdRowLocked(r, id)
        /\ withdrawals' =
             IF id # 0 /\ to # "" /\ withdrawals[id].status \in {"approved", "pending"}
             THEN [withdrawals EXCEPT ![id].status = to]
             ELSE withdrawals
        /\ out' = IF id # 0 /\ to # "" /\ withdrawals[id].status \notin {"approved", "pending"}
                  THEN [NoResp EXCEPT !.op = "webhook", !.code = 409,
                                      !.msg = "already_processed"]
                  ELSE [NoResp EXCEPT !.op = "webhook", !.code = 200, !.msg = "ok"]
  /\ req' = [req EXCEPT ![r] = Idle]
  /\ UNCHANGED <<transactions, ledger_entries, wlock, settlement, accounts>>

\* Update withdrawal status (simple mapping): paid or failed, only from
\* approved or pending; nothing is posted to the ledger.
FlutterwaveWebhook_UpdateWithdrawal(r) ==
  /\ req[r].op = "webhook" /\ req[r].pc = "withdrawal"
  /\ LET id == withdrawalOfRef(req[r].ref)
         to == CASE req[r].st \in {"successful", "success", "completed"} -> "paid"
                 [] req[r].st \in {"failed", "error"} -> "failed"
                 [] OTHER -> ""
     IN /\ (id # 0 /\ to # "") => ~wdRowLocked(r, id)
        /\ withdrawals' =
             IF id # 0 /\ to # "" /\ withdrawals[id].status \in {"approved", "pending"}
             THEN [withdrawals EXCEPT ![id].status = to]
             ELSE withdrawals
  /\ req' = [req EXCEPT ![r] = Idle]
  /\ out' = [NoResp EXCEPT !.op = "webhook", !.code = 200, !.msg = "ok"]
  /\ UNCHANGED <<transactions, ledger_entries, wlock, settlement, accounts>>

\* ----------------------------- AdminApproveWithdrawal (table payouts)
\* Another transaction holds the row lock of payouts row id (SELECT ... FOR
\* UPDATE of AdminRejectWithdrawal).
payoutRowLocked(r, id) == \E s \in Slots \ {r} : req[s].prow = id

\* SELECT ... FROM payouts WHERE id=$1; "already settled" answers 200
Payouts_AdminApproveWithdrawal_Load(r, id) ==
  /\ canCall(r)
  /\ LET q == [Idle EXCEPT !.op = "papprove", !.uid = "admin", !.wid = id]
     IN IF id \notin DOMAIN payouts
        THEN Reject0(r, q, 404, "payout_not_found")
        ELSE IF payouts[id].status = "succeeded"
        THEN Reject0(r, q, 200, "succeeded")
        ELSE /\ req' = [req EXCEPT ![r] =
                  [q EXCEPT !.pc = "mark", !.to = payouts[id].user,
                            !.dest = payouts[id].destination_id,
                            !.amount = payouts[id].amount,
                            !.st = payouts[id].status,
                            !.ref = payouts[id].reference]]
             /\ out' = NoResp
  /\ UNCHANGED <<transactions, ledger_entries, withdrawals, wlock, settlement,
                 accounts>>

\* The update made inside a transaction that stays open, with the payouts
\* row locked, while the transfer is requested.
Payouts_AdminApproveWithdrawal_Mark_InTx(r) ==
  /\ req[r].op = "papprove" /\ req[r].pc = "mark"
  /\ ~payoutRowLocked(r, req[r].wid)
  /\ payouts' = [payouts EXCEPT ![req[r].wid].status = "approved"]
  /\ req' = [req EXCEPT ![r].pc = "call", ![r].prow = req[r].wid]
  /\ out' = NoResp
  /\ UNCHANGED <<transactions, ledger_entries, withdrawals, wlock,
                 payout_destinations, payout_transfers, webhook_events, provider,
                 accounts>>

\* mark approved (idempotent): UPDATE payouts SET status='approved' WHERE
\* id=$1, whatever the status is; it waits for the row lock.
Payouts_AdminApproveWithdrawal_Mark(r) ==
  /\ req[r].op = "papprove" /\ req[r].pc = "mark"
  /\ ~payoutRowLocked(r, req[r].wid)
  /\ payouts' = [payouts EXCEPT ![req[r].wid].status = "approved"]
  /\ req' = [req EXCEPT ![r].pc = "call"]
  /\ out' = NoResp
  /\ UNCHANGED <<transactions, ledger_entries, withdrawals, wlock,
                 payout_destinations, payout_transfers, webhook_events, provider,
                 accounts>>

\* attempt bank transfer: the destination is read and CreateTransfer is
\* called with the payout's amount and reference; its error is dropped.
Payouts_AdminApproveWithdrawal_Call(r) ==
  /\ req[r].op = "papprove" /\ req[r].pc = "call"
  /\ provider' =
       IF destExists(req[r].dest)
       THEN Append(provider, [reference |-> req[r].ref, amount |-> req[r].amount,
                              for |-> <<"payouts", req[r].wid>>])
       ELSE provider
  /\ Answer(r, 200, "approved")
  /\ UNCHANGED <<transactions, ledger_entries, withdrawals, wlock, payouts,
                 payout_destinations, payout_transfers, webhook_events,
                 accounts>>

\* ------------------------------ AdminRejectWithdrawal (table payouts)
\* A refund key that differs from one reject to the next.
refundIdem_PerCall(reference) ==
  reference \o ":rejected_refund:" \o ToString(Len(transactions))

\* refundIdem := reference + ":rejected_refund"
refundIdem(reference) == reference \o ":rejected_refund"

\* SELECT ... FROM payouts WHERE id=$1; only succeeded is refused; tx.Begin
Payouts_AdminRejectWithdrawal_Load(r, id) ==
  /\ req[r].pc = "idle"
  /\ canStart(r)
  /\ LET q == [Idle EXCEPT !.op = "preject", !.uid = "admin", !.wid = id]
     IN IF id \notin DOMAIN payouts
        THEN Reject0(r, q, 404, "payout_not_found")
        ELSE IF payouts[id].status = "succeeded"
        THEN Reject0(r, q, 400, "cannot_reject_succeeded")
        ELSE /\ req' = [req EXCEPT ![r] =
                  [q EXCEPT !.pc = "lock_payout", !.to = payouts[id].user,
                            !.amount = payouts[id].amount,
                            !.st = payouts[id].status,
                            !.ref = payouts[id].reference,
                            !.need = sortPair(systemWalletID,
                                              walletOf(payouts[id].user))]]
             /\ out' = NoResp
  /\ UNCHANGED <<transactions, ledger_entries, withdrawals, wlock, settlement,
                 accounts>>

\* lock payout: SELECT id FROM payouts WHERE id=$1 FOR UPDATE
Payouts_AdminRejectWithdrawal_LockPayout(r) ==
  /\ req[r].op = "preject" /\ req[r].pc = "lock_payout"
  /\ ~payoutRowLocked(r, req[r].wid)
  /\ req' = [req EXCEPT ![r].prow = req[r].wid, ![r].pc = "lock"]
  /\ out' = NoResp
  /\ UNCHANGED <<transactions, ledger_entries, withdrawals, wlock, settlement,
                 accounts>>

\* mark rejected (whatever the status is), then the lookup of the refund key:
\* a committed refund skips the inserts
Payouts_AdminRejectWithdrawal_Mark(r) ==
  /\ req[r].op = "preject" /\ req[r].pc = "locked"
  /\ req' = [req EXCEPT
       ![r].bpst = "rejected",
       ![r].pc = IF txWithKey(refundIdem(req[r].ref)) # 0
                 THEN "commit" ELSE "insert_tx"]
  /\ out' = NoResp
  /\ UNCHANGED <<transactions, ledger_entries, withdrawals, wlock, settlement,
                 accounts>>

Payouts_AdminRejectWithdrawal_InsertTx(r) ==
  /\ req[r].op = "preject" /\ req[r].pc = "insert_tx"
  /\ InsertTx(r, newTx(refundIdem(req[r].ref), "withdrawal_refund",
                       req[r].amount, FALSE, req[r].wid))

\* user gets funds back, system pays back
Payouts_AdminRejectWithdrawal_InsertLedger(r) ==
  /\ req[r].op = "preject" /\ req[r].pc = "insert_ledger"
  /\ req' = [req EXCEPT
       ![r].bent = pairEntries(systemWalletID, req[r].amount, walletOf(req[r].to)),
       ![r].pc = "commit"]
  /\ out' = NoResp
  /\ UNCHANGED <<transactions, ledger_entries, withdrawals, wlock, settlement,
                 accounts>>

Payouts_AdminRejectWithdrawal_Commit(r) ==
  /\ req[r].op = "preject" /\ req[r].pc = "commit"
  /\ CommitWrites(r)
  /\ out' = Reply(r, 200, "rejected", req[r].wid)
  /\ req' = [req EXCEPT ![r] = Idle]

\* --------------------------------- FlutterwaveWebhook (flutterwave.go)
\* hex(HMAC-SHA256(secret, rawBody)) of a body with these fields
hmacHex(secret, event, ref, status) ==
  "hmac(" \o secret \o "," \o event \o "," \o ref \o "," \o status \o ")"

\* direct match or HMAC
validSignature(secret, verif, event, ref, status) ==
  verif = secret \/ verif = hmacHex(secret, event, ref, status)

\* strings.ToUpper of the provider's status
toUpper(s) ==
  CASE s = "successful" -> "SUCCESSFUL"
    [] s = "failed" -> "FAILED"
    [] s = "pending" -> "PENDING"
    [] OTHER -> s

\* The whole handler: one UPDATE payouts ... WHERE reference=$2, which waits
\* for the row lock of the row it matches.
Payouts_FlutterwaveWebhook(r, secret, verif, event, ref, status) ==
  /\ req[r].pc = "idle"
  /\ \A s \in Slots : s < r => req[s].pc # "idle"
  /\ LET id == payoutWithRef(ref)
         handled == event \in {"transfer.completed", "transfer.failed"}
         to == IF toUpper(status) # "SUCCESSFUL" THEN "failed" ELSE "succeeded"
         q == [NoResp EXCEPT !.op = "pwebhook", !.wid = id]
     IN IF secret = "" \/ verif = ""
        THEN /\ out' = [NoResp EXCEPT !.op = "pwebhook", !.code = 403,
                                      !.msg = "forbidden"]
             /\ UNCHANGED payouts
        ELSE IF ~validSignature(secret, verif, event, ref, status)
        THEN /\ out' = [NoResp EXCEPT !.op = "pwebhook", !.code = 403,
                                      !.msg = "bad_signature"]
             /\ UNCHANGED payouts
        ELSE /\ (handled /\ id # 0) => ~payoutRowLocked(r, id)
             /\ payouts' = IF handled /\ id # 0
                           THEN [payouts EXCEPT ![id].status = to]
                           ELSE payouts
             /\ out' = [q EXCEPT !.code = 200, !.msg = "ok"]
  /\ UNCHANGED <<transactions, ledger_entries, withdrawals, wlock, req,
                 payout_destinations, payout_transfers, webhook_events, provider,
                 accounts>>

\* --------------------------------------------------- accounts: Signup
\* A Signup or Refresh request runs its statements one by one on the pool,
\* outside any transaction.  A statement may fail (storage error, the
\* request's context cancelled).
AuthIdle == [op |-> "none", pc |-> "idle", email |-> "", user |-> 0, jti |-> 0]

\* A Signup or Refresh request enters its handler on the lowest free slot;
\* the rows it may still insert fit the tables.
authStart(r) ==
  /\ auth[r].pc = "idle"
  /\ \A s \in Slots : s < r => auth[s].pc # "idle"
  /\ Len(refresh_tokens) + Cardinality({s \in Slots : auth[s].pc # "idle"})
       < MaxTokens

\* The answer of a Signup or Refresh handler; id is the account.
authReply(op, code, msg, id) ==
  [NoResp EXCEPT !.op = op, !.code = code, !.msg = msg, !.id = id]

\* No step of Signup or Refresh touches the ledger or the settlement tables.
ledgerUnchanged ==
  UNCHANGED <<transactions, ledger_entries, withdrawals, wlock, req, settlement>>

\* The rows of table wallets of account id.
walletsOf(id) == {i \in DOMAIN wallets : wallets[i].user_id = id}

\* SELECT EXISTS(SELECT 1 FROM users WHERE email=$1)
emailInUse(email) == \E i \in DOMAIN users : users[i].email = email

\* Signup: the body is read and the email looked up.
Signup_Exists(r, email) ==
  /\ authStart(r)
  /\ Len(users) + Cardinality({s \in Slots : auth[s].op = "signup"}) < MaxUsers
  /\ IF email = ""
     THEN /\ out' = authReply("signup", 400, "email_and_password_required", 0)
          /\ UNCHANGED auth
     ELSE IF emailInUse(email)
     THEN /\ out' = authReply("signup", 409, "email_in_use", 0)
          /\ UNCHANGED auth
     ELSE /\ auth' = [auth EXCEPT ![r] =
                 [AuthIdle EXCEPT !.op = "signup", !.pc = "insert_user",
                                  !.email = email]]
          /\ out' = NoResp
  /\ UNCHANGED <<users, wallets, refresh_tokens>>
  /\ ledgerUnchanged

\* INSERT INTO users ... RETURNING id; users.email is UNIQUE
Signup_InsertUser(r) ==
  /\ auth[r].op = "signup" /\ auth[r].pc = "insert_user"
  /\ \/ /\ ~emailInUse(auth[r].email)
        /\ users' = Append(users, [email |-> auth[r].email])
        /\ auth' = [auth EXCEPT ![r].user = Len(users) + 1,
                                ![r].pc = "insert_wallet"]
        /\ out' = NoResp
     \/ /\ out' = authReply("signup", 500, "insert_user_error", 0)
        /\ auth' = [auth EXCEPT ![r] = AuthIdle]
        /\ UNCHANGED users
  /\ UNCHANGED <<wallets, refresh_tokens>>
  /\ ledgerUnchanged

\* INSERT INTO wallets (user_id, balance) VALUES ($1, 0) ON CONFLICT DO
\* NOTHING (the new id conflicts with no row); an error is logged and the
\* handler goes on.
Signup_InsertWallet(r) ==
  /\ auth[r].op = "signup" /\ auth[r].pc = "insert_wallet"
  /\ wallets' \in {wallets, Append(wallets, [user_id |-> auth[r].user])}
  /\ auth' = [auth EXCEPT ![r].pc = "issue"]
  /\ out' = NoResp
  /\ UNCHANGED <<users, refresh_tokens>>
  /\ ledgerUnchanged

\* issueTokens: INSERT INTO refresh_tokens with a new jti.  `parent` is not
\* a column: it records the token a Refresh presented (0: Signup).
issueTokens(r, parent) ==
  Append(refresh_tokens,
         [user_id |-> auth[r].user, revoked |-> FALSE, parent |-> parent])

\* issueTokens, then 201 with the token pair; token_issue_error if it fails
Signup_IssueTokens(r) ==
  /\ auth[r].op = "signup" /\ auth[r].pc = "issue"
  /\ \/ /\ refresh_tokens' = issueTokens(r, 0)
        /\ out' = authReply("signup", 201, "created", auth[r].user)
     \/ /\ UNCHANGED refresh_tokens
        /\ out' = authReply("signup", 500, "token_issue_error", auth[r].user)
  /\ auth' = [auth EXCEPT ![r] = AuthIdle]
  /\ UNCHANGED <<users, wallets>>
  /\ ledgerUnchanged

\* --------------------------------------------------- accounts: Refresh
\* Refresh: the token is parsed and its row read; no row or a revoked row
\* is refused.  (Tokens are presented within their lifetime.)
Refresh_Load(r, jti) ==
  /\ authStart(r)
  /\ IF jti \notin DOMAIN refresh_tokens \/ refresh_tokens[jti].revoked
     THEN /\ out' = [authReply("refresh", 401, "refresh_not_valid", 0)
                      EXCEPT !.wid = jti]
          /\ UNCHANGED auth
     ELSE /\ auth' = [auth EXCEPT ![r] =
                 [AuthIdle EXCEPT !.op = "refresh", !.pc = "revoke",
                                  !.user = refresh_tokens[jti].user_id,
                                  !.jti = jti]]
          /\ out' = NoResp
  /\ UNCHANGED <<users, wallets, refresh_tokens>>
  /\ ledgerUnchanged

\* UPDATE refresh_tokens SET revoked_at = now() WHERE jti = $1; an error is
\* logged and the handler goes on.
Refresh_Revoke(r) ==
  /\ auth[r].op = "refresh" /\ auth[r].pc = "revoke"
  /\ refresh_tokens' \in
       {refresh_tokens,
        [refresh_tokens EXCEPT ![auth[r].jti].revoked = TRUE]}
  /\ auth' = [auth EXCEPT ![r].pc = "issue"]
  /\ out' = NoResp
  /\ UNCHANGED <<users, wallets>>
  /\ ledgerUnchanged

\* issueTokens, then 200 with the new token pair
Refresh_IssueTokens(r) ==
  /\ auth[r].op = "refresh" /\ auth[r].pc = "issue"
  /\ \/ /\ refresh_tokens' = issueTokens(r, auth[r].jti)
        /\ out' = [authReply("refresh", 200, "ok", auth[r].user)
                     EXCEPT !.wid = auth[r].jti]
     \/ /\ UNCHANGED refresh_tokens
        /\ out' = [authReply("refresh", 500, "token_issue_error", auth[r].user)
                     EXCEPT !.wid = auth[r].jti]
  /\ auth' = [auth EXCEPT ![r] = AuthIdle]
  /\ UNCHANGED <<users, wallets>>
  /\ ledgerUnchanged

\* ------------------------------------------------------------ the ledger
\* Gifts, top-ups and withdrawal holds and rejections over two users and the
\* treasury, from the empty ledger of a fresh database.
LedgerUsers == {"u1", "u2"}
GiftAmounts == {50, 100}
TopupAmounts == {100}
HoldAmounts == {100}
Keys == {NoKey}

Init ==
  /\ transactions = <<>>
  /\ ledger_entries = {}
  /\ withdrawals = <<>>
  /\ wlock = [w \in Wallets |-> 0]
  /\ req = [r \in Slots |-> Idle]
  /\ out = NoResp
  /\ payouts = <<>>
  /\ payout_destinations = <<>>
  /\ payout_transfers = {}
  /\ webhook_events = <<>>
  /\ provider = <<>>
  /\ users = <<>>
  /\ wallets = <<>>
  /\ refresh_tokens = <<>>
  /\ auth = [r \in Slots |-> AuthIdle]

LedgerStep(r) ==
  \/ \E u \in LedgerUsers, v \in LedgerUsers, a \in GiftAmounts, k \in Keys :
       CreateGift_Begin(r, u, v, a, k)
  \/ CreateGift_Check(r)
  \/ CreateGift_InsertTx(r)
  \/ CreateGift_InsertLedger(r)
  \/ CreateGift_Commit(r)
  \/ \E v \in LedgerUsers, a \in TopupAmounts, k \in Keys :
       AdminTopup_Begin(r, v, a, k, TRUE)
  \/ AdminTopup_Check(r)
  \/ AdminTopup_InsertTx(r)
  \/ AdminTopup_InsertLedger(r)
  \/ AdminTopup_Commit(r)
  \/ \E u \in LedgerUsers, a \in HoldAmounts, k \in Keys :
       CreateWithdrawal_Begin(r, u, a, k)
  \/ CreateWithdrawal_Check(r)
  \/ CreateWithdrawal_InsertHold(r)
  \/ CreateWithdrawal_InsertRow(r)
  \/ CreateWithdrawal_Commit(r)
  \/ \E id \in 1..MaxTx : AdminRejectWithdrawal_Load(r, id)
  \/ AdminRejectWithdrawal_InsertReversal(r)
  \/ AdminRejectWithdrawal_Update(r)
  \/ AdminRejectWithdrawal_Commit(r)
  \/ LockWallets(r)
  \/ Fail(r)

Next == \E r \in Slots : LedgerStep(r)

Spec == Init /\ [][Next]_vars

\* The same requests one after another: a request starts when none is running.
NextSeq == LedgerStep(1)

SpecSeq == Init /\ [][NextSeq]_vars

\* ---------------------------------------------------------------- retries
\* Requests one after another, with and without an Idempotency-Key header:
\* gifts, top-ups, and the CreateWithdrawal of both implementations.
RetryUsers == {"u1"}
RetryKeys == {NoKey, "k1", "k2"}
RetryAmounts == {100}

RetryStep(r) ==
  \/ \E v \in {"u2"}, a \in RetryAmounts, k \in RetryKeys :
       CreateGift_Begin(r, "u1", v, a, k)
  \/ CreateGift_Check(r)
  \/ CreateGift_InsertTx(r)
  \/ CreateGift_InsertLedger(r)
  \/ CreateGift_Commit(r)
  \/ \E v \in RetryUsers, a \in RetryAmounts, k \in RetryKeys :
       AdminTopup_Begin(r, v, a, k, TRUE)
  \/ AdminTopup_Check(r)
  \/ AdminTopup_InsertTx(r)
  \/ AdminTopup_InsertLedger(r)
  \/ AdminTopup_Commit(r)
  \/ \E u \in RetryUsers, a \in RetryAmounts, k \in RetryKeys :
       CreateWithdrawal_Begin(r, u, a, k)
  \/ CreateWithdrawal_Check(r)
  \/ CreateWithdrawal_InsertHold(r)
  \/ CreateWithdrawal_InsertRow(r)
  \/ CreateWithdrawal_Commit(r)
  \/ \E u \in RetryUsers : CreatePayoutDestination(r, u)
  \/ \E u \in RetryUsers, d \in 1..MaxDest, a \in RetryAmounts, k \in RetryKeys :
       Payouts_CreateWithdrawal_Begin(r, u, d, a, k)
  \/ Payouts_CreateWithdrawal_Check(r)
  \/ Payouts_CreateWithdrawal_InsertTx(r)
  \/ Payouts_CreateWithdrawal_InsertLedger(r)
  \/ Payouts_CreateWithdrawal_InsertPayout(r)
  \/ Payouts_CreateWithdrawal_Commit(r)
  \/ LockWallets(r)
  \/ Fail(r)

NextRetry == RetryStep(1)

SpecRetry == Init /\ [][NextRetry]_vars

\* ------------------------------------------------------------ settlement
\* One user's withdrawals (table withdrawals) from request to provider
\* outcome: top-up, CreateWithdrawal, reject, approve and webhook deliveries.
WdUsers == {"u1"}
WdAmounts == {100}
WebhookRefs == {"", wdRef(1)}
WebhookStatuses == {"SUCCESSFUL", "FAILED"}
VerifHashes == {"", FLW_WEBHOOK_HASH}

WdStep(r) ==
  \/ \E v \in WdUsers, a \in WdAmounts : AdminTopup_Begin(r, v, a, NoKey, TRUE)
  \/ AdminTopup_Check(r)
  \/ AdminTopup_InsertTx(r)
  \/ AdminTopup_InsertLedger(r)
  \/ AdminTopup_Commit(r)
  \/ \E u \in WdUsers, a \in WdAmounts : CreateWithdrawal_Begin(r, u, a, NoKey)
  \/ CreateWithdrawal_Check(r)
  \/ CreateWithdrawal_InsertHold(r)
  \/ CreateWithdrawal_InsertRow(r)
  \/ CreateWithdrawal_Commit(r)
  \/ \E id \in 1..MaxTx : AdminRejectWithdrawal_Load(r, id)
  \/ AdminRejectWithdrawal_InsertReversal(r)
  \/ AdminRejectWithdrawal_Update(r)
  \/ AdminRejectWithdrawal_Commit(r)
  \/ LockWallets(r)
  \/ Fail(r)
  \/ \E u \in WdUsers : CreatePayoutDestination(r, u)
  \/ \E id \in 1..MaxTx : AdminApproveWithdrawal_Load(r, id)
  \/ AdminApproveWithdrawal_Dest(r)
  \/ AdminApproveWithdrawal_Existing(r)
  \/ AdminApproveWithdrawal_Mark(r)
  \/ AdminApproveWithdrawal_Call(r)
  \/ AdminApproveWithdrawal_Persist(r)
  \/ AdminApproveWithdrawal_DbError(r)
  \/ /\ Len(webhook_events) < MaxEvents
     /\ \E h \in VerifHashes, ref \in WebhookRefs, st \in WebhookStatuses :
          FlutterwaveWebhook_Receive(r, FLW_WEBHOOK_HASH, h, ref, st)
  \/ FlutterwaveWebhook_UpdateTransfer(r)
  \/ FlutterwaveWebhook_UpdateWithdrawal(r)

NextWd == \E r \in Slots : WdStep(r)

SpecWd == Init /\ [][NextWd]_vars

\* ------------------------------------------------------------ idempotency
\* Concurrent gifts that carry an Idempotency-Key, between two pairs of
\* wallets that share no wallet, funded by top-ups.
IdemGifts == {<<"u1", "u2">>, <<"u3", "u4">>}
IdemKeys == {NoKey, "k1"}
IdemAmounts == {100}

IdemStep(r) ==
  \/ \E g \in IdemGifts, a \in IdemAmounts, k \in IdemKeys :
       CreateGift_Begin(r, g[1], g[2], a, k)
  \/ CreateGift_Check(r)
  \/ CreateGift_InsertTx(r)
  \/ CreateGift_InsertLedger(r)
  \/ CreateGift_Commit(r)
  \/ \E g \in IdemGifts, a \in IdemAmounts :
       AdminTopup_Begin(r, g[1], a, NoKey, TRUE)
  \/ AdminTopup_Check(r)
  \/ AdminTopup_InsertTx(r)
  \/ AdminTopup_InsertLedger(r)
  \/ AdminTopup_Commit(r)
  \/ LockWallets(r)
  \/ Fail(r)

NextIdem == \E r \in Slots : IdemStep(r)

SpecIdem == Init /\ [][NextIdem]_vars

\* ------------------------------------------------ settlement (payouts)
\* One user's payouts (table payouts) from request to provider outcome:
\* destination, CreateWithdrawal, approve, reject and webhook deliveries.
PayUsers == {"u1"}
PayAmounts == {100}
PayKeys == {NoKey, "k1"}
PayEvents == {"transfer.completed"}

PayStep(r) ==
  \/ \E u \in PayUsers : CreatePayoutDestination(r, u)
  \/ /\ Len(payouts) + Cardinality({s \in Slots : req[s].op = "payout"}) < MaxPayouts
     /\ \E u \in PayUsers, d \in 1..MaxDest, a \in PayAmounts, k \in PayKeys :
          Payouts_CreateWithdrawal_Begin(r, u, d, a, k)
  \/ Payouts_CreateWithdrawal_Check(r)
  \/ Payouts_CreateWithdrawal_InsertTx(r)
  \/ Payouts_CreateWithdrawal_InsertLedger(r)
  \/ Payouts_CreateWithdrawal_InsertPayout(r)
  \/ Payouts_CreateWithdrawal_Commit(r)
  \/ \E id \in 1..MaxTx : Payouts_AdminApproveWithdrawal_Load(r, id)
  \/ Payouts_AdminApproveWithdrawal_Mark(r)
  \/ Payouts_AdminApproveWithdrawal_Call(r)
  \/ \E id \in 1..MaxTx : Payouts_AdminRejectWithdrawal_Load(r, id)
  \/ Payouts_AdminRejectWithdrawal_LockPayout(r)
  \/ Payouts_AdminRejectWithdrawal_Mark(r)
  \/ Payouts_AdminRejectWithdrawal_InsertTx(r)
  \/ Payouts_AdminRejectWithdrawal_InsertLedger(r)
  \/ Payouts_AdminRejectWithdrawal_Commit(r)
  \/ \E h \in VerifHashes, e \in PayEvents, i \in DOMAIN payouts,
        st \in WebhookStatuses :
       Payouts_FlutterwaveWebhook(r, FLW_WEBHOOK_HASH, h, e, payouts[i].reference, st)
  \/ LockWallets(r)
  \/ Fail(r)

NextPay == \E r \in Slots : PayStep(r)

SpecPay == Init /\ [][NextPay]_vars

\* Both implementations side by side, one request after another.
NextBothSeq == WdStep(1) \/ PayStep(1)

SpecBothSeq == Init /\ [][NextBothSeq]_vars

\* The withdrawals-table handlers, one request after another.
NextWdSeq == WdStep(1)

SpecWdSeq == Init /\ [][NextWdSeq]_vars

\* ------------------------------------------------------------- approvals
\* The approve handlers of both implementations with the requests that
\* prepare their inputs: top-ups, payout destinations and the creation of
\* withdrawals and payouts.
ApproveStep(r) ==
  \/ \E v \in WdUsers, a \in WdAmounts : AdminTopup_Begin(r, v, a, NoKey, TRUE)
  \/ AdminTopup_Check(r)
  \/ AdminTopup_InsertTx(r)
  \/ AdminTopup_InsertLedger(r)
  \/ AdminTopup_Commit(r)
  \/ \E u \in WdUsers, a \in WdAmounts : CreateWithdrawal_Begin(r, u, a, NoKey)
  \/ CreateWithdrawal_Check(r)
  \/ CreateWithdrawal_InsertHold(r)
  \/ CreateWithdrawal_InsertRow(r)
  \/ CreateWithdrawal_Commit(r)
  \/ \E u \in WdUsers : CreatePayoutDestination(r, u)
  \/ \E id \in 1..MaxTx : AdminApproveWithdrawal_Load(r, id)
  \/ AdminApproveWithdrawal_Dest(r)
  \/ AdminApproveWithdrawal_Existing(r)
  \/ AdminApproveWithdrawal_Mark(r)
  \/ AdminApproveWithdrawal_Call(r)
  \/ AdminApproveWithdrawal_Persist(r)
  \/ AdminApproveWithdrawal_DbError(r)
  \/ /\ Len(payouts) + Cardinality({s \in Slots : req[s].op = "payout"}) < MaxPayouts
     /\ \E u \in PayUsers, d \in 1..MaxDest, a \in PayAmounts, k \in PayKeys :
          Payouts_CreateWithdrawal_Begin(r, u, d, a, k)
  \/ Payouts_CreateWithdrawal_Check(r)
  \/ Payouts_CreateWithdrawal_InsertTx(r)
  \/ Payouts_CreateWithdrawal_InsertLedger(r)
  \/ Payouts_CreateWithdrawal_InsertPayout(r)
  \/ Payouts_CreateWithdrawal_Commit(r)
  \/ \E id \in 1..MaxTx : Payouts_AdminApproveWithdrawal_Load(r, id)
  \/ Payouts_AdminApproveWithdrawal_Mark(r)
  \/ Payouts_AdminApproveWithdrawal_Call(r)
  \/ LockWallets(r)

NextApprove == \E r \in Slots : ApproveStep(r)

SpecApprove == Init /\ [][NextApprove]_vars

\* The same requests one after another.
NextApproveSeq == ApproveStep(1)

SpecApproveSeq == Init /\ [][NextApproveSeq]_vars

\* --------------------------------------------------------------- webhooks
\* The provider's webhook deliveries, one request after another, with the
\* requests that bring a withdrawal to the point where the provider reports
\* on it: top-up, payout destination, creation, approval.  A build holds one
\* of the two implementations (both define the same handlers of the same
\* routes), so the requests of one are served only while the table of the
\* other is empty.
\* A delivery is sent with the secret set or unset and with one of the
\* hashes: none, a wrong one, the secret, the HMAC of its body, the HMAC of
\* another body.
HookStatuses == {"SUCCESSFUL", "FAILED"}
HookEvents == {"transfer.completed", "charge.completed"}
otherStatus(st) == IF st = "SUCCESSFUL" THEN "FAILED" ELSE "SUCCESSFUL"
HookAuth(e, ref, st) ==
  {<<FLW_WEBHOOK_HASH, h>> :
     h \in {"", "bad", FLW_WEBHOOK_HASH, hmacHex(FLW_WEBHOOK_HASH, e, ref, st),
            hmacHex(FLW_WEBHOOK_HASH, e, ref, otherStatus(st))}}
    \cup {<<"", "">>, <<"", "bad">>}
HookRefs == {""} \cup {wdRef(id) : id \in DOMAIN withdrawals}
              \cup {payouts[i].reference : i \in DOMAIN payouts}

withdrawalsBuild == payouts = <<>>
payoutsBuild == withdrawals = <<>>

HookStep(r) ==
  \/ \E v \in WdUsers, a \in WdAmounts : AdminTopup_Begin(r, v, a, NoKey, TRUE)
  \/ AdminTopup_Check(r)
  \/ AdminTopup_InsertTx(r)
  \/ AdminTopup_InsertLedger(r)
  \/ AdminTopup_Commit(r)
  \/ \E u \in WdUsers : CreatePayoutDestination(r, u)
  \/ /\ withdrawalsBuild
     /\ \E u \in WdUsers, a \in WdAmounts : CreateWithdrawal_Begin(r, u, a, NoKey)
  \/ CreateWithdrawal_Check(r)
  \/ CreateWithdrawal_InsertHold(r)
  \/ CreateWithdrawal_InsertRow(r)
  \/ CreateWithdrawal_Commit(r)
  \/ /\ withdrawalsBuild
     /\ \E id \in 1..MaxTx : AdminApproveWithdrawal_Load(r, id)
  \/ AdminApproveWithdrawal_Dest(r)
  \/ AdminApproveWithdrawal_Existing(r)
  \/ AdminApproveWithdrawal_Mark(r)
  \/ AdminApproveWithdrawal_Call(r)
  \/ AdminApproveWithdrawal_Persist(r)
  \/ AdminApproveWithdrawal_DbError(r)
  \/ /\ withdrawalsBuild
     /\ Len(webhook_events) < MaxDeliveries
     /\ \E ref \in HookRefs, st \in HookStatuses :
          \E a \in HookAuth("transfer.completed", ref, st) :
            FlutterwaveWebhook_Receive(r, a[1], a[2], ref, st)
  \/ FlutterwaveWebhook_UpdateTransfer(r)
  \/ FlutterwaveWebhook_UpdateWithdrawal(r)
  \/ /\ payoutsBuild
     /\ Len(payouts) + Cardinality({s \in Slots : req[s].op = "payout"}) < MaxPayouts
     /\ \E u \in PayUsers, d \in 1..MaxDest, a \in PayAmounts :
          Payouts_CreateWithdrawal_Begin(r, u, d, a, NoKey)
  \/ Payouts_CreateWithdrawal_Check(r)
  \/ Payouts_CreateWithdrawal_InsertTx(r)
  \/ Payouts_CreateWithdrawal_InsertLedger(r)
  \/ Payouts_CreateWithdrawal_InsertPayout(r)
  \/ Payouts_CreateWithdrawal_Commit(r)
  \/ /\ payoutsBuild
     /\ \E id \in 1..MaxTx : Payouts_AdminApproveWithdrawal_Load(r, id)
  \/ Payouts_AdminApproveWithdrawal_Mark(r)
  \/ Payouts_AdminApproveWithdrawal_Call(r)
  \/ /\ payoutsBuild
     /\ \E e \in HookEvents, ref \in HookRefs, st \in HookStatuses :
          \E a \in HookAuth(e, ref, st) :
            Payouts_FlutterwaveWebhook(r, a[1], a[2], e, ref, st)
  \/ LockWallets(r)

NextHookSeq == HookStep(1)

SpecHookSeq == Init /\ [][NextHookSeq]_vars

\* --------------------------------------------------------- destinations
\* Two users create and delete payout destinations while payouts are
\* requested against them and approved; the requests overlap.
DestUsers == {"u1", "u2"}

DestStep(r) ==
  \/ \E u \in DestUsers : CreatePayoutDestination(r, u)
  \/ \E u \in DestUsers, id \in 1..MaxDest : DeletePayoutDestination(r, u, id)
  \/ /\ Len(payouts) + Cardinality({s \in Slots : req[s].op = "payout"}) < MaxPayouts
     /\ \E u \in DestUsers, d \in 1..MaxDest, a \in PayAmounts :
          Payouts_CreateWithdrawal_Begin(r, u, d, a, NoKey)
  \/ Payouts_CreateWithdrawal_Check(r)
  \/ Payouts_CreateWithdrawal_InsertTx(r)
  \/ Payouts_CreateWithdrawal_InsertLedger(r)
  \/ Payouts_CreateWithdrawal_InsertPayout(r)
  \/ Payouts_CreateWithdrawal_Commit(r)
  \/ \E id \in 1..MaxPayouts : Payouts_AdminApproveWithdrawal_Load(r, id)
  \/ Payouts_AdminApproveWithdrawal_Mark(r)
  \/ Payouts_AdminApproveWithdrawal_Call(r)
  \/ LockWallets(r)
  \/ Fail(r)

NextDest == \E r \in Slots : DestStep(r)

SpecDest == Init /\ [][NextDest]_vars

\* ---------------------------------------------------------- gift inputs
\* Gifts between two users with amounts of either sign and zero, next to
\* top-ups; the requests overlap and any statement may fail.
GiftInputs == {0 - 50, 0, 50, 100}

GiftStep(r) ==
  \/ \E u \in LedgerUsers, v \in LedgerUsers, a \in GiftInputs :
       CreateGift_Begin(r, u, v, a, NoKey)
  \/ CreateGift_Check(r)
  \/ CreateGift_InsertTx(r)
  \/ CreateGift_InsertLedger(r)
  \/ CreateGift_Commit(r)
  \/ \E v \in LedgerUsers, a \in TopupAmounts :
       AdminTopup_Begin(r, v, a, NoKey, TRUE)
  \/ AdminTopup_Check(r)
  \/ AdminTopup_InsertTx(r)
  \/ AdminTopup_InsertLedger(r)
  \/ AdminTopup_Commit(r)
  \/ LockWallets(r)
  \/ Fail(r)

NextGift == \E r \in Slots : GiftStep(r)

SpecGift == Init /\ [][NextGift]_vars

\* ------------------------------------------------------- top-up targets
\* Gifts, withdrawals, rejections and top-ups one after another, a top-up
\* being served by either version of AdminTopup (admin_topup.go has neither
\* the amount ceiling nor the target test of unnamed/part_000) and naming a
\* user or the system user.
TopupTargets == LedgerUsers \cup {SystemUser}

TopupStep(r) ==
  \/ \E u \in LedgerUsers, v \in LedgerUsers, a \in GiftAmounts :
       CreateGift_Begin(r, u, v, a, NoKey)
  \/ CreateGift_Check(r)
  \/ CreateGift_InsertTx(r)
  \/ CreateGift_InsertLedger(r)
  \/ CreateGift_Commit(r)
  \/ \E v \in TopupTargets, a \in TopupAmounts, guarded \in BOOLEAN :
       AdminTopup_Begin(r, v, a, NoKey, guarded)
  \/ AdminTopup_Check(r)
  \/ AdminTopup_InsertTx(r)
  \/ AdminTopup_InsertLedger(r)
  \/ AdminTopup_Commit(r)
  \/ \E u \in LedgerUsers, a \in HoldAmounts :
       CreateWithdrawal_Begin(r, u, a, NoKey)
  \/ CreateWithdrawal_Check(r)
  \/ CreateWithdrawal_InsertHold(r)
  \/ CreateWithdrawal_InsertRow(r)
  \/ CreateWithdrawal_Commit(r)
  \/ \E id \in 1..MaxTx : AdminRejectWithdrawal_Load(r, id)
  \/ AdminRejectWithdrawal_InsertReversal(r)
  \/ AdminRejectWithdrawal_Update(r)
  \/ AdminRejectWithdrawal_Commit(r)
  \/ LockWallets(r)
  \/ Fail(r)

NextTopupSeq == TopupStep(1)

SpecTopupSeq == Init /\ [][NextTopupSeq]_vars

\* ------------------------------------------------------ transfer amounts
\* Withdrawals of a whole and of a fractional number of Naira brought to
\* approval, one request after another, in a build of either implementation.
KoboAmounts == {100, 150}

AmountStep(r) ==
  \/ \E v \in WdUsers, a \in KoboAmounts : AdminTopup_Begin(r, v, a, NoKey, TRUE)
  \/ AdminTopup_Check(r)
  \/ AdminTopup_InsertTx(r)
  \/ AdminTopup_InsertLedger(r)
  \/ AdminTopup_Commit(r)
  \/ \E u \in WdUsers : CreatePayoutDestination(r, u)
  \/ /\ withdrawalsBuild
     /\ \E u \in WdUsers, a \in KoboAmounts : CreateWithdrawal_Begin(r, u, a, NoKey)
  \/ CreateWithdrawal_Check(r)
  \/ CreateWithdrawal_InsertHold(r)
  \/ CreateWithdrawal_InsertRow(r)
  \/ CreateWithdrawal_Commit(r)
  \/ /\ withdrawalsBuild
     /\ \E id \in 1..MaxTx : AdminApproveWithdrawal_Load(r, id)
  \/ AdminApproveWithdrawal_Dest(r)
  \/ AdminApproveWithdrawal_Existing(r)
  \/ AdminApproveWithdrawal_Mark(r)
  \/ AdminApproveWithdrawal_Call(r)
  \/ AdminApproveWithdrawal_Persist(r)
  \/ AdminApproveWithdrawal_DbError(r)
  \/ /\ payoutsBuild
     /\ Len(payouts) + Cardinality({s \in Slots : req[s].op = "payout"}) < MaxPayouts
     /\ \E u \in PayUsers, d \in 1..MaxDest, a \in KoboAmounts :
          Payouts_CreateWithdrawal_Begin(r, u, d, a, NoKey)
  \/ Payouts_CreateWithdrawal_Check(r)
  \/ Payouts_CreateWithdrawal_InsertTx(r)
  \/ Payouts_CreateWithdrawal_InsertLedger(r)
  \/ Payouts_CreateWithdrawal_InsertPayout(r)
  \/ Payouts_CreateWithdrawal_Commit(r)
  \/ /\ payoutsBuild
     /\ \E id \in 1..MaxTx : Payouts_AdminApproveWithdrawal_Load(r, id)
  \/ Payouts_AdminApproveWithdrawal_Mark(r)
  \/ Payouts_AdminApproveWithdrawal_Call(r)
  \/ LockWallets(r)

NextAmountSeq == AmountStep(1)

SpecAmountSeq == Init /\ [][NextAmountSeq]_vars

\* ----------------------------------------------------- provider outcomes
\* Authenticated deliveries that report success, failure or a transfer
\* still pending, in any order and more than once, for withdrawals and
\* payouts brought to approval; one request after another, in a build of
\* either implementation.
OutcomeStatuses == {"SUCCESSFUL", "FAILED", "PENDING"}
OutcomeEvents == {"transfer.completed", "transfer.failed"}

OutcomeStep(r) ==
  \/ \E v \in WdUsers, a \in WdAmounts : AdminTopup_Begin(r, v, a, NoKey, TRUE)
  \/ AdminTopup_Check(r)
  \/ AdminTopup_InsertTx(r)
  \/ AdminTopup_InsertLedger(r)
  \/ AdminTopup_Commit(r)
  \/ \E u \in WdUsers : CreatePayoutDestination(r, u)
  \/ /\ withdrawalsBuild
     /\ \E u \in WdUsers, a \in WdAmounts : CreateWithdrawal_Begin(r, u, a, NoKey)
  \/ CreateWithdrawal_Check(r)
  \/ CreateWithdrawal_InsertHold(r)
  \/ CreateWithdrawal_InsertRow(r)
  \/ CreateWithdrawal_Commit(r)
  \/ /\ withdrawalsBuild
     /\ \E id \in 1..MaxTx : AdminApproveWithdrawal_Load(r, id)
  \/ AdminApproveWithdrawal_Dest(r)
  \/ AdminApproveWithdrawal_Existing(r)
  \/ AdminApproveWithdrawal_Mark(r)
  \/ AdminApproveWithdrawal_Call(r)
  \/ AdminApproveWithdrawal_Persist(r)
  \/ AdminApproveWithdrawal_DbError(r)
  \/ /\ withdrawalsBuild
     /\ Len(webhook_events) < MaxDeliveries
     /\ \E ref \in HookRefs, st \in OutcomeStatuses :
          FlutterwaveWebhook_Receive(r, FLW_WEBHOOK_HASH, FLW_WEBHOOK_HASH, ref, st)
  \/ FlutterwaveWebhook_UpdateTransfer(r)
  \/ FlutterwaveWebhook_UpdateWithdrawal(r)
  \/ /\ payoutsBuild
     /\ Len(payouts) + Cardinality({s \in Slots : req[s].op = "payout"}) < MaxPayouts
     /\ \E u \in PayUsers, d \in 1..MaxDest, a \in PayAmounts :
          Payouts_CreateWithdrawal_Begin(r, u, d, a, NoKey)
  \/ Payouts_CreateWithdrawal_Check(r)
  \/ Payouts_CreateWithdrawal_InsertTx(r)
  \/ Payouts_CreateWithdrawal_InsertLedger(r)
  \/ Payouts_CreateWithdrawal_InsertPayout(r)
  \/ Payouts_CreateWithdrawal_Commit(r)
  \/ /\ payoutsBuild
     /\ \E id \in 1..MaxTx : Payouts_AdminApproveWithdrawal_Load(r, id)
  \/ Payouts_AdminApproveWithdrawal_Mark(r)
  \/ Payouts_AdminApproveWithdrawal_Call(r)
  \/ /\ payoutsBuild
     /\ \E e \in OutcomeEvents, ref \in HookRefs, st \in OutcomeStatuses :
          Payouts_FlutterwaveWebhook(r, FLW_WEBHOOK_HASH, FLW_WEBHOOK_HASH, e, ref, st)
  \/ LockWallets(r)

NextOutcomeSeq == OutcomeStep(1)

SpecOutcomeSeq == Init /\ [][NextOutcomeSeq]_vars

\* -------------------------------------------------------------- refunds
\* Rejections of one payout (table payouts), repeated and overlapping, with
\* the requests that create it; any statement may fail.
RefundStep(r) ==
  \/ \E u \in PayUsers : CreatePayoutDestination(r, u)
  \/ /\ Len(payouts) + Cardinality({s \in Slots : req[s].op = "payout"}) < MaxPayouts
     /\ \E u \in PayUsers, d \in 1..MaxDest, a \in PayAmounts, k \in PayKeys :
          Payouts_CreateWithdrawal_Begin(r, u, d, a, k)
  \/ Payouts_CreateWithdrawal_Check(r)
  \/ Payouts_CreateWithdrawal_InsertTx(r)
  \/ Payouts_CreateWithdrawal_InsertLedger(r)
  \/ Payouts_CreateWithdrawal_InsertPayout(r)
  \/ Payouts_CreateWithdrawal_Commit(r)
  \/ \E id \in 1..MaxPayouts : Payouts_AdminRejectWithdrawal_Load(r, id)
  \/ Payouts_AdminRejectWithdrawal_LockPayout(r)
  \/ Payouts_AdminRejectWithdrawal_Mark(r)
  \/ Payouts_AdminRejectWithdrawal_InsertTx(r)
  \/ Payouts_AdminRejectWithdrawal_InsertLedger(r)
  \/ Payouts_AdminRejectWithdrawal_Commit(r)
  \/ LockWallets(r)
  \/ Fail(r)

NextRefund == \E r \in Slots : RefundStep(r)

SpecRefund == Init /\ [][NextRefund]_vars

\* ------------------------------------------------------------- accounts
\* Signup and Refresh requests that overlap: two emails (and a body without
\* one), every refresh token issued so far presented any number of times.
Emails == {"", "a@okies.local", "b@okies.local"}

AuthStep(r) ==
  \/ \E email \in Emails : Signup_Exists(r, email)
  \/ Signup_InsertUser(r)
  \/ Signup_InsertWallet(r)
  \/ Signup_IssueTokens(r)
  \/ \E jti \in 1..MaxTokens : Refresh_Load(r, jti)
  \/ Refresh_Revoke(r)
  \/ Refresh_IssueTokens(r)

NextAuth == \E r \in Slots : AuthStep(r)

SpecAuth == Init /\ [][NextAuth]_vars

\* ------------------------------------------------------------------ claims
\* The slot whose handler commits in this step.
commits(r, op) == req[r].op = op /\ req[r].pc = "commit" /\ out'.code \in {200, 201}
\* A step of slot r's handler.
steps(r, op) == req[r].op = op /\ req'[r] # req[r]

\* The balance GetWallet reads for user u after the step.
balanceAfter(u) == balanceOver(ledger_entries', walletOf(u))

entriesOf(i) == {e \in ledger_entries : e.tx = i}

\* C1: no negative balance. In every committed state the derived balance of
\* every non-system wallet is >= 0, under any interleaving of CreateGift,
\* AdminTopup, CreateWithdrawal and AdminRejectWithdrawal from the empty ledger.
C1_NoNegativeBalance == \A u \in AllUsers : GetWallet(u) >= 0

\* A debit was refused for lack of funds after a user had spent a balance down.
C1_Witness ==
  /\ out.msg = "insufficient_funds"
  /\ \E u \in LedgerUsers :
       /\ GetWallet(u) = 0
       /\ \E e \in ledger_entries : e.wallet = walletOf(u) /\ e.direction = "debit"

\* C2: double entry. Every committed transactions row has exactly two ledger
\* rows, one debit and one credit, each of the transaction's amount, and every
\* ledger row belongs to a committed transaction, also after requests that
\* failed part-way.
C2_DoubleEntry ==
  /\ \A i \in DOMAIN transactions :
       /\ Cardinality(entriesOf(i)) = 2
       /\ \E d \in entriesOf(i), c \in entriesOf(i) :
            /\ d.direction = "debit" /\ c.direction = "credit"
            /\ d.amount = transactions[i].amount
            /\ c.amount = transactions[i].amount
  /\ \A e \in ledger_entries : e.tx \in DOMAIN transactions

\* A request was rolled back with a 500 while another sat between its
\* transactions row and its ledger rows, next to two committed transactions.
C2_Witness ==
  /\ out.code = 500
  /\ Len(transactions) >= 2
  /\ \E r \in Slots : req[r].btx # <<>> /\ req[r].bent = {}

\* C3: a gift is atomic. The step that commits a gift of N from A to B lowers
\* the balance GetWallet reads for A by exactly N and raises the one it reads
\* for B by exactly N; no other step of the gift's handler changes either.
C3_GiftAtomic ==
  [][\A r \in Slots :
       steps(r, "gift") =>
         LET A == req[r].uid
             B == req[r].to
             N == req[r].amount
         IN IF commits(r, "gift")
            THEN /\ balanceAfter(A) = GetWallet(A) - N
                 /\ balanceAfter(B) = GetWallet(B) + N
            ELSE /\ balanceAfter(A) = GetWallet(A)
                 /\ balanceAfter(B) = GetWallet(B)]_vars

\* A gift has committed while another request was running.
C3_Witness ==
  /\ out.op = "gift" /\ out.code = 201
  /\ busy # {}
  /\ \E u \in LedgerUsers : GetWallet(u) > 0


\* No row of the ledger tables or of table withdrawals changes in the step.
dbUnchanged == UNCHANGED <<transactions, ledger_entries, withdrawals>>

\* The committed transactions rows that carry Idempotency-Key k.
keyRows(k) == {i \in DOMAIN transactions : transactions[i].key = k}

\* Row i is the transaction a request of slot r with the same parameters
\* committed: same kind, amount, debited and credited wallet.
sameRequest(r, i) ==
  LET a == IF req[r].op = "gift" THEN walletOf(req[r].uid) ELSE systemWalletID
  IN /\ transactions[i].kind = req[r].op
     /\ transactions[i].amount = req[r].amount
     /\ entriesOf(i) =
          {[e EXCEPT !.tx = i] : e \in pairEntries(a, req[r].amount, walletOf(req[r].to))}

\* C4: idempotent retry of CreateGift and AdminTopup. With requests run one
\* after another, a success answer to a gift or top-up that carried a key
\* names the one committed transaction with that key, which has one pair of
\* ledger entries; and a second call with the same key and parameters reaches
\* the key lookup with that transaction committed and answers 200 succeeded
\* with the same transaction id, adding no row (a storage error aside).
C4_IdempotentRetry ==
  /\ []((out.op \in {"gift", "topup"} /\ out.code \in {200, 201} /\ out.key # NoKey) =>
          /\ keyRows(out.key) = {out.id}
          /\ out.msg = "succeeded"
          /\ Cardinality(entriesOf(out.id)) = 2)
  /\ [][\A r \in Slots :
          (/\ req[r].op \in {"gift", "topup"} /\ req[r].pc = "locked"
           /\ req[r].key # NoKey
           /\ \E i \in keyRows(req[r].key) : sameRequest(r, i)
           /\ req'[r] # req[r]) =>
             /\ dbUnchanged
             /\ \/ out'.code = 500
                \/ /\ out'.code = 200 /\ out'.msg = "succeeded"
                   /\ keyRows(req[r].key) = {out'.id}]_vars

\* A gift was repeated with the key of a committed gift and was answered 200
\* succeeded with that gift's transaction id; the recipient holds one amount.
C4_Witness ==
  /\ out.op = "gift" /\ out.code = 200 /\ out.msg = "succeeded"
  /\ out.key # NoKey
  /\ out.id \in DOMAIN transactions
  /\ transactions[out.id].kind = "gift"
  /\ GetWallet("u2") = 100

\* C5: concurrent gifts with one key. Under every interleaving at most one
\* transaction with a given Idempotency-Key is committed and it moves the
\* funds once (one debit and one credit entry); a gift handler that is past
\* its wallet-lock step holds the row locks of both wallets while it looks up
\* the key and inserts the row.
C5_OneTransactionPerKey ==
  /\ \A k \in IdemKeys \ {NoKey} :
       /\ Cardinality(keyRows(k)) <= 1
       /\ Cardinality({e \in ledger_entries : e.tx \in keyRows(k)}) <= 2
  /\ \A r \in Slots :
       (req[r].op = "gift" /\ req[r].pc \in {"locked", "insert_tx", "insert_ledger", "commit"}) =>
         /\ wlock[walletOf(req[r].uid)] = r
         /\ wlock[walletOf(req[r].to)] = r

\* A gift failed on the unique index: a gift with the same key between two
\* other wallets had passed its own key lookup at the same time and committed.
C5_Witness ==
  /\ out.op = "gift" /\ out.msg = "insert_tx_error"
  /\ Cardinality(keyRows(out.key)) = 1
  /\ \E u \in {"u2", "u4"} : GetWallet(u) = 100

\* C6: idempotent retry of CreateWithdrawal. In each of the two
\* implementations, the requests that carried one Idempotency-Key (and the
\* same body) commit at most one withdrawal record and one hold.
C6_WithdrawalRetry ==
  \A k \in RetryKeys \ {NoKey} :
    /\ Cardinality({i \in DOMAIN withdrawals : withdrawals[i].hdr = k}) <= 1
    /\ Cardinality({i \in DOMAIN payouts : payouts[i].reference = k}) <= 1

RECURSIVE SumAmount(_)
SumAmount(S) ==
  IF S = {} THEN 0
  ELSE LET x == CHOOSE y \in S : TRUE IN x[2] + SumAmount(S \ {x})

\* The amounts of user u's withdrawals that are pending.
heldPending(u) ==
  SumAmount({<<i, withdrawals[i].amount>> : i \in
              {j \in DOMAIN withdrawals :
                 withdrawals[j].user = u /\ withdrawals[j].status = "pending"}})

\* What the holds and reversals posted so far add up to on user u's wallet.
withdrawalNet(u) ==
  balanceOver({e \in ledger_entries : transactions[e.tx].kind = "withdrawal"},
              walletOf(u))

\* C8: reject after hold reverses exactly. With requests run one after another,
\* a user's holds and reversals net to minus the amounts of the user's pending
\* withdrawals: CreateWithdrawal(N) lowers the balance by N and the reject of
\* that withdrawal brings it back to what it was and leaves status rejected;
\* a reject of a withdrawal that is no longer pending answers 404
\* not_found_or_already_processed and changes no table.
C8_RejectRestores ==
  /\ [](/\ \A u \in LedgerUsers : withdrawalNet(u) = 0 - heldPending(u)
        /\ (out.op = "reject" /\ out.code = 200) =>
             withdrawals[out.wid].status = "rejected")
  /\ [][\A id \in DOMAIN withdrawals :
          withdrawals[id].status # "pending" =>
            /\ \A r \in Slots :
                 ~(req[r].pc = "idle" /\ req'[r].op = "reject" /\ req'[r].wid = id)
            /\ (out' # out /\ out'.op = "reject" /\ out'.wid = id) =>
                 /\ out'.code = 404
                 /\ out'.msg = "not_found_or_already_processed"
                 /\ dbUnchanged]_vars

\* A second reject of a rejected withdrawal was answered 404 and the user's
\* balance is the 100 it was before the withdrawal.
C8_Witness ==
  /\ out.op = "reject" /\ out.code = 404
  /\ out.wid \in DOMAIN withdrawals
  /\ withdrawals[out.wid].status = "rejected"
  /\ GetWallet(withdrawals[out.wid].user) = 100
  /\ Len(transactions) = 3

\* The reversal transactions posted by rejects of withdrawal id.
reversalsOf(id) ==
  {i \in DOMAIN transactions : transactions[i].reversal /\ transactions[i].forWd = id}

\* C9: at most one reversal per withdrawal. Under any interleaving of concurrent
\* AdminRejectWithdrawal calls on the same withdrawal, at most one reversal
\* transaction is committed for it.
C9_AtMostOneReversal ==
  \A id \in DOMAIN withdrawals : Cardinality(reversalsOf(id)) <= 1

\* C10: reject is atomic with respect to status. In every committed state a
\* withdrawal has a committed reversal transaction if and only if its status
\* is rejected, under any interleaving of AdminRejectWithdrawal with
\* AdminApproveWithdrawal and webhook deliveries on the same withdrawal.
C10_ReversalIffRejected ==
  \A id \in DOMAIN withdrawals :
    (reversalsOf(id) # {}) <=> (withdrawals[id].status = "rejected")

\* The refund transactions posted by rejects of payout id.
refundsOf(id) ==
  {i \in DOMAIN transactions :
     transactions[i].kind = "withdrawal_refund" /\ transactions[i].forWd = id}

\* C11: rejected is reached only from pending. In both reject implementations
\* a step that makes a withdrawal (or payout) rejected finds it pending, and a
\* step that commits a reversal (or refund) for it finds it pending: one that
\* is approved, failed or otherwise non-pending is never rejected or refunded.
C11_RejectOnlyFromPending ==
  [][/\ \A id \in DOMAIN withdrawals :
          /\ (withdrawals'[id].status = "rejected" /\ withdrawals[id].status # "rejected")
               => withdrawals[id].status = "pending"
          /\ reversalsOf(id)' # reversalsOf(id) => withdrawals[id].status = "pending"
     /\ \A id \in DOMAIN payouts :
          /\ (payouts'[id].status = "rejected" /\ payouts[id].status # "rejected")
               => payouts[id].status = "pending"
          /\ refundsOf(id)' # refundsOf(id) => payouts[id].status = "pending"]_vars

\* Slot r leaves idle in this step as an approve (op) of withdrawal id.
startsApprove(op, id) ==
  \E r \in Slots : req[r].pc = "idle" /\ req'[r].op = op /\ req'[r].wid = id

\* An approve (op) of withdrawal id is answered in this step by its first
\* statement, with no other request running.
answeredAtLoad(op, id) ==
  busy = {} /\ (\A r \in Slots : req'[r].pc = "idle")
  /\ out'.op = op /\ out'.wid = id

\* Nothing stored changes and the provider gets no request in this step.
storedUnchanged ==
  UNCHANGED <<transactions, ledger_entries, withdrawals, payouts,
              payout_transfers, provider>>

waitsOn(r) ==
  {s \in Slots \ {r} :
     \/ req[r].pc = "lock" /\ wlock[Head(req[r].need)] = s
     \/ /\ req[r].pc = "insert_tx" /\ req[r].op \in {"gift", "topup"}
        /\ req[r].key # NoKey
        /\ \E i \in DOMAIN req[s].btx : req[s].btx[i].key = req[r].key
     \/ /\ req[r].pc = "insert_tx" /\ req[r].op = "payout"
        /\ \E i \in DOMAIN req[s].btx : req[s].btx[i].key = req[r].ref
     \/ /\ req[r].pc = "insert_tx" /\ req[r].op = "preject"
        /\ \E i \in DOMAIN req[s].btx : req[s].btx[i].key = refundIdem(req[r].ref)
     \/ /\ req[r].op = "reject" /\ req[r].pc = "update"
        /\ req[s].bupd /\ req[s].wid = req[r].wid
     \/ /\ req[r].op = "preject" /\ req[r].pc = "lock_payout"
        /\ req[s].prow = req[r].wid}

RECURSIVE waitChain(_, _)
\* The slots reached from the set S along waitsOn in at most n steps.
waitChain(S, n) ==
  IF n = 0 THEN S
  ELSE waitChain(S \cup UNION {waitsOn(s) : s \in S}, n - 1)

noCircularWait ==
  \A r \in Slots : \A s \in waitsOn(r) : r \notin waitChain({s}, NSlots)

\* The wallets whose row lock slot r holds.
heldWallets(r) == {w \in Wallets : wlock[w] = r}

\* C13: deadlock-free locking. No circular wait is reachable among concurrent
\* CreateGift, AdminTopup, CreateWithdrawal and AdminRejectWithdrawal
\* requests; a request takes each wallet row lock above the ones it holds
\* (ascending wallet id); and a request that locks a withdrawal row takes that
\* lock while it holds no wallet lock.
C13_LockOrder ==
  /\ []noCircularWait
  /\ [][\A r \in Slots :
          /\ \A w \in heldWallets(r)' \ heldWallets(r) :
               \A v \in heldWallets(r) : v < w
          /\ ((req'[r].bupd /\ ~req[r].bupd) \/ (req'[r].prow # 0 /\ req[r].prow = 0))
               => heldWallets(r) = {}]_vars

\* ------------------------------------------------------- opposite gifts
\* Two wallets are funded with 1000 each by one top-up apiece; then u1 gives
\* u2 100 and u2 gives u1 50, each once, in any interleaving of their steps.
\* No statement fails for a reason outside the handlers.
DuelFunding == {1000}
DuelGifts == {<<"u1", "u2", 100>>, <<"u2", "u1", 50>>}

funded(u) ==
  \E i \in DOMAIN transactions :
    /\ transactions[i].kind = "topup"
    /\ \E e \in entriesOf(i) : e.wallet = walletOf(u) /\ e.direction = "credit"
fundingStarted(u) ==
  \/ funded(u)
  \/ \E s \in Slots : req[s].op = "topup" /\ req[s].pc # "idle" /\ req[s].to = u
giftStarted(g) ==
  \/ \E i \in DOMAIN transactions :
       transactions[i].kind = "gift" /\ transactions[i].amount = g[3]
  \/ \E s \in Slots : req[s].op = "gift" /\ req[s].pc # "idle" /\ req[s].uid = g[1]

DuelStep(r) ==
  \/ \E g \in DuelGifts :
       /\ funded("u1") /\ funded("u2") /\ ~giftStarted(g)
       /\ CreateGift_Begin(r, g[1], g[2], g[3], NoKey)
  \/ CreateGift_Check(r)
  \/ CreateGift_InsertTx(r)
  \/ CreateGift_InsertLedger(r)
  \/ CreateGift_Commit(r)
  \/ \E v \in {"u1", "u2"}, a \in DuelFunding :
       /\ ~fundingStarted(v)
       /\ AdminTopup_Begin(r, v, a, NoKey, TRUE)
  \/ AdminTopup_Check(r)
  \/ AdminTopup_InsertTx(r)
  \/ AdminTopup_InsertLedger(r)
  \/ AdminTopup_Commit(r)
  \/ LockWallets(r)

NextDuel == \E r \in Slots : DuelStep(r)

\* Every request that can take a step eventually takes one: each runs in its
\* own goroutine and the database grants a free lock to a waiting statement.
SpecDuel == Init /\ [][NextDuel]_vars /\ WF_vars(NextDuel)

giftCommitted(g) ==
  \E i \in DOMAIN transactions :
    transactions[i].kind = "gift" /\ transactions[i].amount = g[3]

duelSettled ==
  /\ \A g \in DuelGifts : giftCommitted(g)
  /\ GetWallet("u1") = 950
  /\ GetWallet("u2") = 1050

\* C14: two concurrent gifts, u1 to u2 of 100 and u2 to u1 of 50, starting
\* from balances of 1000 each: no gift is ever answered with an error, and in
\* every interleaving both gifts end up committed with the balances at 950
\* for u1 and 1050 for u2, for good.
C14_OppositeGifts ==
  /\ [](out.op = "gift" => out.code = 201)
  /\ <>[]duelSettled

C14_Witness ==
  /\ duelSettled
  /\ \A s \in Slots : req[s].pc = "idle"

\* The approve of slot r handles withdrawal id and is at one of the pcs.
approveAt(r, id, pcs) ==
  req[r].op = "approve" /\ req[r].wid = id /\ req[r].pc \in pcs

\* Withdrawal id is approved, has no payout_transfers row, and its user has
\* a payout destination.
awaitingTransfer(id) ==
  /\ withdrawals[id].status = "approved"
  /\ ~\E t \in payout_transfers : t.withdrawal_id = id
  /\ latestActivePayoutDestination(withdrawals[id].user)

\* C15: a failed provider call (withdrawals-table handlers, requests one
\* after another). The step that answers 502 flutterwave_error leaves the
\* withdrawal approved and adds no transaction, no ledger entry and no
\* payout_transfers row; and an approve of a withdrawal that is approved
\* with no payout_transfers row is not refused at its load and goes through
\* every statement up to the provider call again.
C15_ProviderFailureKeepsApproved ==
  [][/\ \A r \in Slots :
          (req[r].op = "approve" /\ req[r].pc = "call"
             /\ out'.msg = "flutterwave_error") =>
            /\ withdrawals'[req[r].wid].status = "approved"
            /\ UNCHANGED <<transactions, ledger_entries, withdrawals,
                           payout_transfers>>
     /\ \A id \in DOMAIN withdrawals :
          awaitingTransfer(id) =>
            /\ ~answeredAtLoad("approve", id)
            /\ \A r \in Slots :
                 /\ (approveAt(r, id, {"dest"}) /\ req'[r] # req[r])
                      => approveAt(r, id, {"existing"})'
                 /\ (approveAt(r, id, {"existing"}) /\ req'[r] # req[r])
                      => approveAt(r, id, {"mark"})'
                 /\ (approveAt(r, id, {"mark"}) /\ req'[r] # req[r])
                      => approveAt(r, id, {"call"})']_vars

\* A retried approve reached the provider a second time and failed again:
\* the withdrawal is still approved and held, with no payout_transfers row.
C15_Witness ==
  /\ out.op = "approve" /\ out.msg = "flutterwave_error"
  /\ Len(provider) = 2
  /\ provider[1].for = provider[2].for
  /\ payout_transfers = {}
  /\ withdrawals[out.wid].status = "approved"
  /\ GetWallet(withdrawals[out.wid].user) = 0
  /\ ~\E i \in DOMAIN transactions : transactions[i].reversal

transferRecorded(id) == \E t \in payout_transfers : t.withdrawal_id = id

inProviderCall(r) == req[r].op \in {"approve", "papprove"} /\ req[r].pc = "call"

\* Slot r has a transaction open, or holds a wallet row lock, the lock of a
\* withdrawals row or of a payouts row, or has uncommitted writes.
holdsLocks(r) ==
  \/ inTx(r)
  \/ heldWallets(r) # {}
  \/ req[r].bupd
  \/ req[r].prow # 0
  \/ req[r].btx # <<>> \/ req[r].bpo # <<>> \/ req[r].bpst # ""

\* C18: no provider call under a lock. A request that is at its call of the
\* provider has no transaction open and holds no wallet row lock and no
\* withdrawal row lock, and every request the provider receives is sent by
\* such a request.
C18_NoProviderCallUnderLock ==
  /\ [](\A r \in Slots : inProviderCall(r) => ~holdsLocks(r))
  /\ [][provider' # provider =>
          \E r \in Slots : inProviderCall(r) /\ ~holdsLocks(r) /\ req'[r] # req[r]]_vars

\* A request is at its provider call while another request's transaction
\* holds a wallet row lock.
C18_Witness ==
  \E r \in Slots : \E s \in Slots \ {r} :
    inProviderCall(r) /\ heldWallets(s) # {} /\ inTx(s)

atSuccessUpdate(r) ==
  /\ req[r].op = "webhook" /\ req[r].pc = "withdrawal"
  /\ req[r].st \in {"successful", "success", "completed"}

prefixOf(q, n) == [i \in 1..n |-> q[i]]

\* This step is a delivery to flutterwave.go's handler that passes the
\* signature verification.
payoutsDeliveryAccepted ==
  \E r \in Slots, e \in HookEvents, ref \in HookRefs, st \in HookStatuses :
    \E a \in HookAuth(e, ref, st) :
      /\ Payouts_FlutterwaveWebhook(r, a[1], a[2], e, ref, st)
      /\ a[1] # "" /\ a[2] # "" /\ validSignature(a[1], a[2], e, ref, st)

\* This step is a delivery to webhook_handlers.go's handler that passes the
\* signature verification.
withdrawalsDeliveryAccepted ==
  \E r \in Slots :
    /\ req[r].pc = "idle"
    /\ \/ req'[r].op = "webhook"
       \/ out'.op = "webhook" /\ out'.code = 200 /\ webhook_events' # webhook_events

\* C22: every verified delivery is recorded. In both implementations a
\* webhook request that passes the signature verification adds exactly one
\* record to webhook_events, whether or not its reference matches a
\* withdrawal; and the records already there are never changed or removed.
C22_EveryDeliveryRecorded ==
  [][/\ Len(webhook_events') >= Len(webhook_events)
     /\ prefixOf(webhook_events', Len(webhook_events)) = webhook_events
     /\ withdrawalsDeliveryAccepted => Len(webhook_events') = Len(webhook_events) + 1
     /\ payoutsDeliveryAccepted => Len(webhook_events') = Len(webhook_events) + 1]_vars

\* A delivery that is not authentic: no secret is configured, or the
\* verif-hash header is missing, or it is neither the secret nor (where
\* hmacAccepted) the HMAC of the body under the secret.
notAuthentic(secret, verif, e, ref, st, hmacAccepted) ==
  \/ secret = ""
  \/ verif = ""
  \/ /\ verif # secret
     /\ ~(hmacAccepted /\ verif = hmacHex(secret, e, ref, st))

\* The 403 answers of the two handlers: they carry nothing of the body.
refusals ==
  {[NoResp EXCEPT !.op = "webhook", !.code = 403, !.msg = "invalid signature"],
   [NoResp EXCEPT !.op = "pwebhook", !.code = 403, !.msg = "forbidden"],
   [NoResp EXCEPT !.op = "pwebhook", !.code = 403, !.msg = "bad_signature"]}

\* C23: deliveries that fail the signature check change nothing. In both
\* implementations a webhook request with no configured secret, with no
\* verif-hash header or with one that does not verify is answered 403 with
\* an answer that does not depend on its body, ends there, and changes no
\* withdrawal, payout, payout_transfers or webhook_events row and nothing in
\* the ledger.
C23_BadSignatureRejected ==
  [][\A r \in Slots, e \in HookEvents, ref \in HookRefs, st \in HookStatuses :
       \A a \in HookAuth(e, ref, st) :
         /\ (FlutterwaveWebhook_Receive(r, a[1], a[2], ref, st)
               /\ notAuthentic(a[1], a[2], e, ref, st, FALSE)) =>
              /\ out' \in refusals
              /\ req' = req
              /\ UNCHANGED <<transactions, ledger_entries, withdrawals, payouts,
                             payout_transfers, webhook_events>>
         /\ (Payouts_FlutterwaveWebhook(r, a[1], a[2], e, ref, st)
               /\ notAuthentic(a[1], a[2], e, ref, st, TRUE)) =>
              /\ out' \in refusals
              /\ req' = req
              /\ UNCHANGED <<transactions, ledger_entries, withdrawals, payouts,
                             payout_transfers, webhook_events>>]_vars

\* A delivery was refused while a withdrawal with a recorded transfer, or a
\* payout, was waiting for the provider's report, and it is still waiting.
C23_Witness ==
  /\ out \in refusals
  /\ \/ \E id \in DOMAIN withdrawals :
          withdrawals[id].status = "approved" /\ transferRecorded(id)
     \/ \E i \in DOMAIN payouts : payouts[i].status = "approved"

isHold(t, kind, u, a) ==
  /\ t \in DOMAIN transactions
  /\ transactions[t].kind = kind /\ ~transactions[t].reversal
  /\ transactions[t].amount = a
  /\ entriesOf(t) =
       {[tx |-> t, wallet |-> walletOf(u), direction |-> "debit", amount |-> a],
        [tx |-> t, wallet |-> systemWalletID, direction |-> "credit", amount |-> a]}

\* The hold transactions of the two implementations.
holdsOfKind(kind) ==
  {t \in DOMAIN transactions : transactions[t].kind = kind /\ ~transactions[t].reversal}

\* C25: one hold per withdrawal. In every committed state each row of
\* withdrawals is linked by tx_id to a hold transaction of its amount, debit
\* of the user's wallet and credit of the treasury, no two rows share a hold,
\* and every hold is the hold of a row; likewise each payout has exactly one
\* reserve transaction (its idempotency key is the payout's reference), and
\* every reserve transaction has exactly one payout.
C25_OneHoldPerWithdrawal ==
  /\ \A id \in DOMAIN withdrawals :
       isHold(withdrawals[id].tx_id, "withdrawal", withdrawals[id].user,
              withdrawals[id].amount)
  /\ \A i \in DOMAIN withdrawals : \A j \in DOMAIN withdrawals :
       withdrawals[i].tx_id = withdrawals[j].tx_id => i = j
  /\ \A t \in holdsOfKind("withdrawal") :
       \E id \in DOMAIN withdrawals : withdrawals[id].tx_id = t
  /\ \A i \in DOMAIN payouts :
       /\ Cardinality({t \in holdsOfKind("withdrawal_reserve") :
                         transactions[t].key = payouts[i].reference}) = 1
       /\ \A t \in holdsOfKind("withdrawal_reserve") :
            transactions[t].key = payouts[i].reference
              => isHold(t, "withdrawal_reserve", payouts[i].user, payouts[i].amount)
  /\ \A t \in holdsOfKind("withdrawal_reserve") :
       Cardinality({i \in DOMAIN payouts :
                      payouts[i].reference = transactions[t].key}) = 1

\* A withdrawal and a payout are committed with their holds, and a later
\* request was rolled back by a failing statement.
C25_Witness ==
  /\ withdrawals # <<>> /\ payouts # <<>>
  /\ out.code = 500 /\ out.op \in {"withdraw", "payout"}


\* Every payout names a destination row that exists and belongs to the
\* payout's user.
payoutsOwnDestination ==
  \A i \in DOMAIN payouts :
    /\ destExists(payouts[i].destination_id)
    /\ payout_destinations[payouts[i].destination_id].user = payouts[i].user

\* A well-formed payout request that names a missing destination or the
\* destination of another user answers 400 invalid_destination, opens no
\* transaction and writes no row.
invalidDestinationRefused ==
  \A r \in Slots, u \in DestUsers, d \in 1..MaxDest, a \in PayAmounts :
    ( /\ Payouts_CreateWithdrawal_Begin(r, u, d, a, NoKey)
      /\ (~destExists(d) \/ payout_destinations[d].user # u) )
    => /\ out'.op = "payout" /\ out'.code = 400
       /\ out'.msg = "invalid_destination"
       /\ req'[r].pc = "idle"
       /\ UNCHANGED <<transactions, ledger_entries, payouts, wlock>>

\* C26: every committed payout references an existing destination owned by
\* the user who requested it, whatever creations and deletions of
\* destinations overlap the request, and a request naming a destination that
\* is missing or belongs to another user is refused with invalid_destination
\* and posts nothing.
C26_PayoutDestinationOwned ==
  [](payoutsOwnDestination) /\ [][invalidDestinationRefused]_vars

\* A payout is committed and the later deletion of its destination was
\* refused by the foreign key.
C26_Witness ==
  /\ payouts # <<>>
  /\ out.op = "delete_destination" /\ out.code = 500
  /\ out.id = payouts[1].destination_id


\* The step leaves the ledger tables and every balance GetWallet reads as
\* they were, and slot r's request is over with its writes dropped.
nothingPosted(r) ==
  /\ UNCHANGED <<transactions, ledger_entries>>
  /\ \A u \in AllUsers \cup {SystemUser} : balanceAfter(u) = GetWallet(u)
  /\ req'[r] = Idle

\* C27: a rejected gift posts nothing.  A CreateGift whose recipient is the
\* caller or whose amount is not positive is answered 400 before a
\* transaction is opened; one whose sender's balance, read under the wallet
\* locks, is below the amount is answered 400 insufficient_funds; and every
\* step that answers a gift with 400 commits no transactions row and no
\* ledger row and changes no balance.
C27_RejectedGiftPostsNothing ==
  [][\A r \in Slots :
       /\ \A u \in LedgerUsers, v \in LedgerUsers, a \in GiftInputs :
            (CreateGift_Begin(r, u, v, a, NoKey) /\ (u = v \/ a <= 0))
              => /\ out'.op = "gift" /\ out'.code = 400
                 /\ out'.msg \in {"invalid_request", "cannot_gift_self"}
                 /\ nothingPosted(r)
       /\ ( /\ CreateGift_Check(r)
            /\ balanceIn(r, walletOf(req[r].uid)) < req[r].amount )
              => /\ out'.op = "gift" /\ out'.code = 400
                 /\ out'.msg = "insufficient_funds"
                 /\ nothingPosted(r)
       /\ ( steps(r, "gift") /\ out'.op = "gift" /\ out'.code = 400 )
              => nothingPosted(r)]_vars

\* A gift was refused for lack of funds while the sender held a balance
\* below the amount, another request being in flight.
C27_Witness ==
  /\ out.op = "gift" /\ out.msg = "insufficient_funds"
  /\ \E u \in LedgerUsers : GetWallet(u) = 50
  /\ busy # {}


\* C28: the two wallets of a transaction differ.  No committed transaction
\* has its debit row and its credit row on the same wallet, after any
\* sequence of gifts, top-ups by either version of AdminTopup (the system
\* user among the targets), withdrawals and rejections.
C28_WalletsDiffer ==
  \A i \in DOMAIN transactions :
    \A d \in entriesOf(i), c \in entriesOf(i) :
      (d.direction = "debit" /\ c.direction = "credit") => d.wallet # c.wallet


\* The amount, in minor units, of the withdrawal or payout a provider
\* request was made for.
heldAmount(p) ==
  IF p.for[1] = "withdrawals" THEN withdrawals[p.for[2]].amount
  ELSE payouts[p.for[2]].amount

withdrawalsTransferInMajorUnits ==
  \A i \in DOMAIN provider :
    provider[i].for[1] = "withdrawals" =>
      /\ heldAmount(provider[i]) % 100 = 0
      /\ provider[i].amount * 100 = heldAmount(provider[i])


\* A transfer request was sent to the provider for row id of the table.
transferRequested(table, id) ==
  \E i \in DOMAIN provider : provider[i].for = <<table, id>>

\* C30: held funds go one way.  For no withdrawal do both a committed
\* reversal and a provider transfer request exist, and for no payout both a
\* committed refund and a provider transfer request, under any interleaving
\* of approve and reject requests on it.
C30_ReturnedOrSentNeverBoth ==
  /\ \A id \in DOMAIN withdrawals :
       ~(reversalsOf(id) # {} /\ transferRequested("withdrawals", id))
  /\ \A id \in DOMAIN payouts :
       ~(refundsOf(id) # {} /\ transferRequested("payouts", id))


RECURSIVE SumBalances(_)
\* The sum, over the wallets in W, of the balance derived from the ledger.
SumBalances(W) ==
  IF W = {} THEN 0
  ELSE LET w == CHOOSE x \in W : TRUE
       IN balanceOver(ledger_entries, w) + SumBalances(W \ {w})

\* C31: money is conserved.  In every committed state the derived balances
\* of all wallets, the treasury wallet included, sum to exactly zero, and
\* every ledger row is on one of those wallets.
C31_BalancesSumToZero ==
  /\ SumBalances(Wallets) = 0
  /\ \A e \in ledger_entries : e.wallet \in Wallets

\* Money has moved in every way the ledger knows: a top-up, a gift, a hold
\* and a reversal are committed, and a user holds a balance.
C31_Witness ==
  /\ \A k \in {"topup", "gift", "withdrawal"} :
       \E i \in DOMAIN transactions : transactions[i].kind = k
  /\ \E i \in DOMAIN transactions : transactions[i].reversal
  /\ \E u \in LedgerUsers : GetWallet(u) > 0


\* A step of a webhook handler of either implementation.
webhookStep ==
  \/ out'.op = "pwebhook"
  \/ \E r \in Slots : steps(r, "webhook")

withdrawalOutcomeSticks ==
  [][webhookStep =>
       \A id \in DOMAIN withdrawals :
         withdrawals[id].status \in {"paid", "failed"}
           => withdrawals'[id].status = withdrawals[id].status]_vars

withdrawalPendingSettlesNothing ==
  [][\A r \in Slots :
       /\ (steps(r, "webhook") /\ req[r].st = "pending")
            => withdrawals' = withdrawals
       /\ steps(r, "webhook") =>
            \A id \in DOMAIN withdrawals :
              withdrawals'[id].status # withdrawals[id].status =>
                \/ withdrawals'[id].status = "paid" /\ req[r].st = "successful"
                \/ withdrawals'[id].status = "failed" /\ req[r].st = "failed"]_vars


\* C34: a refused approval leaves the withdrawal as it was.  A withdrawal
\* (table withdrawals) whose amount is not a multiple of 100 is never left
\* approved: AdminApproveWithdrawal answers amount_not_whole_naira for it and
\* its status stays what it was, so that it can still be rejected.
C34_FractionalNeverApproved ==
  \A id \in DOMAIN withdrawals :
    withdrawals[id].amount % 100 # 0 => withdrawals[id].status # "approved"


\* After the step, transaction i is committed with amount a, a debit row of
\* a on wallet dw and a credit row of a on wallet cw.
movedAfter(i, dw, cw, a) ==
  /\ i \in DOMAIN transactions'
  /\ transactions'[i].amount = a
  /\ [tx |-> i, wallet |-> dw, direction |-> "debit", amount |-> a] \in ledger_entries'
  /\ [tx |-> i, wallet |-> cw, direction |-> "credit", amount |-> a] \in ledger_entries'

\* C35: succeeded means the request's transfer is committed.  A step that
\* answers a CreateGift or an AdminTopup with status succeeded leaves
\* committed the transaction it names, of exactly the requested amount, from
\* the wallet the request debits (the caller's, or the treasury for a
\* top-up) to the wallet it credits; a request whose Idempotency-Key was used
\* by a different request is not answered succeeded.
C35_SucceededMeansMoved ==
  [][\A r \in Slots :
       /\ (steps(r, "gift") /\ out'.op = "gift" /\ out'.msg = "succeeded")
            => movedAfter(out'.id, walletOf(req[r].uid), walletOf(req[r].to),
                          req[r].amount)
       /\ (steps(r, "topup") /\ out'.op = "topup" /\ out'.msg = "succeeded")
            => movedAfter(out'.id, systemWalletID, walletOf(req[r].to),
                          req[r].amount)]_vars


\* C36: at most one refund per payout.  Under any sequence or interleaving
\* of AdminRejectWithdrawal requests (table payouts) on one payout, at most
\* one withdrawal_refund transaction is committed for it, and at most one
\* transaction carries the payout's refund key.
C36_AtMostOneRefund ==
  \A id \in DOMAIN payouts :
    /\ Cardinality(refundsOf(id)) <= 1
    /\ Cardinality({i \in DOMAIN transactions :
                      transactions[i].key = refundIdem(payouts[id].reference)}) <= 1

\* A repeated reject of a payout whose refund is committed has found the
\* refund key and is about to commit with nothing to insert.
C36_Witness ==
  /\ payouts # <<>> /\ payouts[1].status = "rejected"
  /\ Cardinality(refundsOf(1)) = 1
  /\ \E r \in Slots :
       /\ req[r].op = "preject" /\ req[r].pc = "commit"
       /\ req[r].wid = 1 /\ req[r].btx = <<>>


\* A step of the webhook of webhook_handlers.go settles a withdrawal only
\* from approved: the row it changes was approved and becomes paid or failed.
webhookSettlesFromApproved ==
  \A r \in Slots :
    steps(r, "webhook") =>
      \A id \in DOMAIN withdrawals :
        withdrawals'[id].status # withdrawals[id].status =>
          /\ withdrawals[id].status = "approved"
          /\ withdrawals'[id].status \in {"paid", "failed"}

\* C37: a withdrawal with a transfer is past pending.  In every reachable
\* state of the withdrawals-table handlers, a withdrawal that has a
\* payout_transfers row is not pending; so the webhook moves a withdrawal to
\* paid or failed only from approved, never from pending, and never changes
\* a rejected one.
C37_TransferImpliesNotPending ==
  /\ [](\A t \in payout_transfers :
          /\ t.withdrawal_id \in DOMAIN withdrawals
          /\ withdrawals[t.withdrawal_id].status # "pending")
  /\ [][webhookSettlesFromApproved]_vars

\* The provider's report has settled a withdrawal that had a transfer row
\* and had been approved.
C37_Witness ==
  /\ out.op = "webhook" /\ out.code = 200
  /\ \E t \in payout_transfers :
       /\ withdrawals[t.withdrawal_id].status \in {"paid", "failed"}
       /\ t.status \in {"successful", "failed"}


\* C38: one wallet per account.  No account has more than one wallet, and an
\* account for which Signup answered 201 has exactly one, also when the
\* wallet insert failed after the user row was inserted.
C38_OneWalletPerAccount ==
  /\ \A id \in DOMAIN users : Cardinality(walletsOf(id)) <= 1
  /\ (out.op = "signup" /\ out.code = 201)
       => Cardinality(walletsOf(out.id)) = 1

\* No account ever has more than one wallet.
atMostOneWallet ==
  /\ \A id \in DOMAIN users : Cardinality(walletsOf(id)) <= 1
  /\ \A i \in DOMAIN wallets : wallets[i].user_id \in DOMAIN users

\* The tokens issued by Refresh calls that presented token jti.
refreshedFrom(jti) ==
  {t \in DOMAIN refresh_tokens : refresh_tokens[t].parent = jti}

\* C39: a refresh token is single-use.  For each issued refresh token at
\* most one Refresh call presenting it issues a new token pair, under any
\* interleaving of Refresh calls with the same token.
C39_RefreshSingleUse ==
  \A jti \in DOMAIN refresh_tokens : Cardinality(refreshedFrom(jti)) <= 1


====
